---- MODULE Spec2Model ----
(***************************************************************************)
(* A model of the 0g-tapp service: the deployment task machine of the      *)
(* Boot Service (src/boot/mod.rs, src/boot/task_manager.rs), the nonce     *)
(* ledger (src/nonce_manager.rs), the key service (src/app_key/mod.rs) and *)
(* the privileged key retrieval of src/lib.rs.                             *)
(*                                                                         *)
(* Strings whose structure matters (app ids, nonces, hex text) are         *)
(* sequences of one-character strings; byte strings are sequences of       *)
(* numbers 0..255.  Every critical section of a lock of the deployment     *)
(* worker, together with the lock-free code that follows it up to the next *)
(* await, is one step; every other handler is one step.                    *)
(***************************************************************************)
EXTENDS Integers, Sequences, FiniteSets, TLC

VARIABLES
    now,                  \* chrono::Utc::now().timestamp()
    tasks,                \* TaskManager.tasks: task id -> Task
    workers,              \* start_app handlers and spawned _start_app workers, by task id
    app_measurements,     \* BootService.app_measurements
    app_compose_content,  \* BootService.app_compose_content
    app_mount_files,      \* BootService.app_mount_files
    rtmr,                 \* the runtime measurements the attestation agent was extended with
    inserted,             \* history: every (task id, AppMeasurement) inserted so far
    extended,             \* history: every (task id, content) the register was extended with
    app_keys,             \* AppKeyService.app_keys: app id -> key pair
    used_nonces,          \* NonceManager.used_nonces: nonce -> expiry
    validity_window,      \* NonceManager.validity_window
    released,             \* history: <<app id, deployer hex>> of every private key handed out
    denied,               \* history: <<nonce, timestamp>> of every request refused for its
                          \* signature after its nonce was consumed
    consumed,             \* history: the successful verify_and_consume calls, in order
    use_in_memory,        \* AppKeyService.use_in_memory
    app_containers,       \* DockerComposeManager.app_containers
    applied,              \* the last application of a function on its own: name, input, output
    locks,                \* for every shared lock, the <<holder, mode>> pairs that hold it
    procs,                \* the running handlers and workers: id -> what is left of their code
    calls                 \* the verify_and_consume calls, step by step: what each carries,
                          \* the clock it read and what it returned

vars == <<now, tasks, workers, app_measurements, app_compose_content,
          app_mount_files, rtmr, inserted, extended, app_keys, used_nonces,
          validity_window, released, denied, consumed, use_in_memory,
          app_containers, applied, locks, procs, calls>>

bootVars == <<tasks, workers, app_measurements, app_compose_content,
              app_mount_files, rtmr, inserted, extended, app_containers>>
keyVars == <<app_keys, released, denied, use_in_memory>>
nonceVars == <<used_nonces, validity_window, consumed>>
sideVars == <<applied, locks, procs, calls>>

-----------------------------------------------------------------------------
(* Bounds of the model *)

MaxTasks == 2
MaxTime == 1
MaxConsumed == 2

-----------------------------------------------------------------------------
(* Maps; an optional value is a sequence of at most one element *)

None == "None"

EmptyMap == <<>>

Put(m, k, v) == [x \in (DOMAIN m) \cup {k} |-> IF x = k THEN v ELSE m[x]]

(* no function applied on its own yet *)
NoCall == [op |-> "none", input |-> <<>>, output |-> <<>>]

(* The shared locks: the Mutex fields of BootService (boot/mod.rs:24-29) and
   AppKeyService (app_key/mod.rs:26), the RwLock of TaskManager
   (boot/task_manager.rs:67) and of NonceManager (nonce_manager.rs:9) *)
LockNames ==
    {"manager", "app_measurements", "aa", "app_compose_content", "app_mount_files",
     "app_keys", "tasks", "used_nonces"}

Unlocked == [lock \in LockNames |-> {}]

-----------------------------------------------------------------------------
(* Bytes, text and hex *)

HexDigits == <<"0", "1", "2", "3", "4", "5", "6", "7",
               "8", "9", "a", "b", "c", "d", "e", "f">>

Chars == {" ", "-", ".", "/", "0", "@", "_", "a", "b", "n", "x"}

CharCode(c) ==
    CASE c = " " -> 32
      [] c = "-" -> 45
      [] c = "." -> 46
      [] c = "/" -> 47
      [] c = "0" -> 48
      [] c = "@" -> 64
      [] c = "_" -> 95
      [] c = "a" -> 97
      [] c = "b" -> 98
      [] c = "n" -> 110
      [] c = "x" -> 120

as_bytes(s) == [i \in 1..Len(s) |-> CharCode(s[i])]

(* hex::encode: two lowercase digits a byte *)
hex_encode(bytes) ==
    [i \in 1..(2 * Len(bytes)) |->
        IF i % 2 = 1 THEN HexDigits[(bytes[(i + 1) \div 2] \div 16) + 1]
                     ELSE HexDigits[(bytes[i \div 2] % 16) + 1]]

HexDigitSet == {HexDigits[v + 1] : v \in 0..15}

HexValues == [c \in HexDigitSet |-> CHOOSE v \in 0..15 : HexDigits[v + 1] = c]

HexValue(c) == HexValues[c]

(* hex::decode succeeds on an even number of hex digits *)
IsHexText(s) ==
    /\ Len(s) % 2 = 0
    /\ \A i \in 1..Len(s) : s[i] \in HexDigitSet

hex_decode(s) ==
    [i \in 1..(Len(s) \div 2) |-> 16 * HexValue(s[2 * i - 1]) + HexValue(s[2 * i])]

(* String::cmp: byte-wise lexicographic order *)
StrLess(s, t) ==
    \E k \in 1..Len(t) :
        /\ \A i \in 1..(k - 1) : i <= Len(s) /\ s[i] = t[i]
        /\ \/ k = Len(s) + 1
           \/ k <= Len(s) /\ CharCode(s[k]) < CharCode(t[k])

(* Vec::sort_by on a text key, a stable sort, over <<key, item>> pairs: an
   element goes behind those of a smaller key and those of its key before it *)
SortedPosition(xs, i) ==
    1 + Cardinality({j \in 1..Len(xs) :
                        \/ StrLess(xs[j][1], xs[i][1])
                        \/ xs[j][1] = xs[i][1] /\ j < i})

SortKeyed(xs) ==
    [p \in 1..Len(xs) |-> xs[CHOOSE i \in 1..Len(xs) : SortedPosition(xs, i) = p]]

(* String::from_utf8_lossy on the bytes the model uses *)
CharOf(code) ==
    IF \E c \in Chars : CharCode(c) = code
    THEN CHOOSE c \in Chars : CharCode(c) = code
    ELSE "\\uFFFD"

from_utf8_lossy(bytes) == [i \in 1..Len(bytes) |-> CharOf(bytes[i])]

-----------------------------------------------------------------------------
(* The measurement pipeline (src/boot/measurement.rs) *)

(* A digest is modelled free of collisions: the algorithm and the input. *)
hash(data) == <<"sha384", data>>

(* A compose text is the entries of its top-level mapping in source order, each
   <<key, node, quoting of the key>>. A node is a scalar (its text and its
   quoting), a sequence or a mapping (its entries and its layout); an item of
   a sequence is an entry without a key. Mapping keys are strings. *)
KeyOf(entry) == entry[1]

Scalar(text, quoting) == [kind |-> "scalar", text |-> text, items |-> <<>>, style |-> quoting]
Sequence(nodes, layout) ==
    [kind |-> "seq", text |-> "",
     items |-> [i \in 1..Len(nodes) |-> <<(<<>>), nodes[i], "">>], style |-> layout]
Mapping(entries, layout) == [kind |-> "map", text |-> "", items |-> entries, style |-> layout]

(* the text as one document *)
Document(content) == Mapping(content, "block")

(* the plain scalars of the model that YAML and JSON read as numbers *)
Numbers == {"0"}

(* the parser rejects a mapping that has an entry without a key or a repeated
   key, at any depth *)
RECURSIVE node_parses(_)
node_parses(node) ==
    /\ node.kind = "map" =>
          /\ \A i \in 1..Len(node.items) : KeyOf(node.items[i]) # <<>>
          /\ \A i, j \in 1..Len(node.items) :
                 KeyOf(node.items[i]) = KeyOf(node.items[j]) => i = j
    /\ \A i \in 1..Len(node.items) : node_parses(node.items[i][2])

yaml_parses(content) == node_parses(Document(content))

(* serde_yaml::from_str and serde_json::from_str: the value of a node, which
   keeps neither quoting nor layout; a quoted scalar is a string, entries stay
   in the order of the text *)
RECURSIVE from_str(_)
from_str(node) ==
    IF node.kind = "scalar"
    THEN [kind |-> IF node.style = "plain" /\ node.text \in Numbers THEN "num" ELSE "str",
          text |-> node.text, items |-> <<>>, style |-> ""]
    ELSE [kind |-> node.kind, text |-> "",
          items |-> [i \in 1..Len(node.items) |->
                        <<KeyOf(node.items[i]), from_str(node.items[i][2]), "">>],
          style |-> ""]

(* serde_json::to_string (layout "compact") and to_string_pretty (layout
   "pretty"): strings and keys in double quotes, numbers plain *)
RECURSIVE to_string(_, _)
to_string(value, layout) ==
    IF value.kind \in {"str", "num"}
    THEN Scalar(value.text, IF value.kind = "num" THEN "plain" ELSE "double")
    ELSE [kind |-> value.kind, text |-> "",
          items |-> [i \in 1..Len(value.items) |->
                        <<KeyOf(value.items[i]), to_string(value.items[i][2], layout),
                          IF value.kind = "map" THEN "double" ELSE "">>],
          style |-> layout]

RECURSIVE sort_json_keys(_)
sort_json_keys(value) ==
    LET sorted == [i \in 1..Len(value.items) |->
                      <<KeyOf(value.items[i]), sort_json_keys(value.items[i][2]), "">>]
    IN  IF value.kind = "map" THEN [value EXCEPT !.items = SortKeyed(sorted)]
        ELSE IF value.kind = "seq" THEN [value EXCEPT !.items = sorted]
        ELSE value

normalize_json_content(json_str) ==
    to_string(sort_json_keys(from_str(json_str)), "pretty")

(* a normalize_compose_content that leaves the keys as the parser gave them *)
normalize_compose_content_unsorted(content) ==
    to_string(from_str(to_string(from_str(Document(content)), "compact")), "pretty").items

(* normalize_compose_content of a text that parses: the entries of the
   pretty-printed JSON document *)
normalize_compose_content(content) ==
    normalize_json_content(to_string(from_str(Document(content)), "compact")).items

calculate_compose_hash(content) == hash(normalize_compose_content(content))

RECURSIVE MerkleLevel(_)
MerkleLevel(level) ==
    IF level = <<>> THEN <<>>
    ELSE IF Len(level) = 1 THEN <<hash(level[1] \o level[1])>>
    ELSE <<hash(level[1] \o level[2])>> \o MerkleLevel(SubSeq(level, 3, Len(level)))

RECURSIVE MerkleReduce(_)
MerkleReduce(level) ==
    IF Len(level) > 1 THEN MerkleReduce(MerkleLevel(level)) ELSE level[1]

build_merkle_root(leaf_hashes) ==
    IF leaf_hashes = <<>> THEN hash(<<>>)
    ELSE IF Len(leaf_hashes) = 1 THEN leaf_hashes[1]
    ELSE MerkleReduce(leaf_hashes)

FileSeparator == <<"\\x1E">>

RECURSIVE JoinFiles(_)
JoinFiles(files) ==
    IF files = <<>> THEN <<>>
    ELSE <<"--- FILE: ">> \o Head(files).source_path \o <<" ---\\n">>
         \o from_utf8_lossy(Head(files).content)
         \o (IF Len(files) > 1 THEN FileSeparator \o JoinFiles(Tail(files)) ELSE <<>>)

(* a calculate_mount_files_hash that takes the files in the order given *)
calculate_mount_files_hash_unsorted(mount_files) ==
    IF mount_files = <<>> THEN <<hash(<<>>), <<>>>>
    ELSE LET leaf_hashes == [i \in 1..Len(mount_files) |-> hash(mount_files[i].content)]
         IN  <<build_merkle_root(leaf_hashes), JoinFiles(mount_files)>>

(* calculate_mount_files_hash: <<root hash, audit text>> *)
calculate_mount_files_hash(mount_files) ==
    IF mount_files = <<>> THEN <<hash(<<>>), <<>>>>
    ELSE LET keyed == [i \in 1..Len(mount_files) |->
                          <<mount_files[i].source_path, mount_files[i]>>]
             sorted_keyed == SortKeyed(keyed)
             sorted_files == [i \in 1..Len(sorted_keyed) |-> sorted_keyed[i][2]]
             leaf_hashes == [i \in 1..Len(sorted_files) |-> hash(sorted_files[i].content)]
         IN  <<build_merkle_root(leaf_hashes), JoinFiles(sorted_files)>>

(* serde_json::to_string of an AppMeasurement *)
to_json(measurement) == <<"json", measurement>>

-----------------------------------------------------------------------------
(* Inputs *)

TaskIds == 1..MaxTasks

PrivKeys == {1, 2}

(* The 64 bytes X || Y of the public key of a private key *)
pub_of(k) == [i \in 1..64 |-> k]

DeployerShort == [i \in 1..32 |-> 1]

on_curve(public_key) == \E k \in PrivKeys : public_key = pub_of(k)

AppA == <<"a">>
AppAB == <<"a", "b">>
AppIds == {AppA, AppAB}

(* version: '3.8' after another key; one key; an entry without a key *)
ComposeA ==
    << <<(<<"b">>), Scalar("web", "plain"), "plain">>,
       <<(<<"a">>), Scalar("3.8", "single"), "plain">> >>
ComposeB == << <<(<<"a">>), Scalar("db", "plain"), "plain">> >>
ComposeBad == << <<(<<>>), Scalar("web", "plain"), "plain">> >>

FileX == [source_path |-> <<".", "/", "x">>, content |-> <<120>>, mode |-> ""]
FileA == [source_path |-> <<".", "/", "a">>, content |-> <<97, 98, 110>>, mode |-> "0600"]

Request(app_id, deployer, compose_content, mount_files) ==
    [app_id |-> app_id, deployer |-> deployer,
     compose_content |-> compose_content, mount_files |-> mount_files]

ValidRequests ==
    { Request(AppA, pub_of(1), ComposeA, <<>>),
      Request(AppA, pub_of(2), ComposeB, <<FileX, FileA>>),
      Request(AppAB, pub_of(1), ComposeBad, <<FileA>>) }

InvalidRequests ==
    { Request(AppA, pub_of(1), <<>>, <<>>),
      Request(<<>>, pub_of(1), ComposeA, <<>>),
      Request(<<"a", " ">>, pub_of(1), ComposeA, <<>>),
      Request(AppA, DeployerShort, ComposeA, <<>>) }

StartAppRequests == ValidRequests \cup InvalidRequests

(* two applications of two deployers, the second with letters in its hex *)
ListDeployer == [i \in 1..64 |-> 171]

ListStartRequests ==
    { Request(AppA, pub_of(1), ComposeA, <<>>),
      Request(AppAB, ListDeployer, ComposeB, <<>>) }

ModelRequests == StartAppRequests \cup ListStartRequests

-----------------------------------------------------------------------------
(* src/utils.rs *)

(* a letter outside ASCII, U+00E9, which UTF-8 writes in two bytes *)
EAcute == "\\u00E9"

(* char::is_alphanumeric, the Unicode property, on the characters of the model *)
is_alphanumeric(c) ==
    c \in {"0", "1", "2", "3", "a", "b", "m", "n", "p", "x", "y", EAcute}

len_utf8(c) == IF c = EAcute THEN 2 ELSE 1

(* str::len: the number of bytes of the UTF-8 text *)
RECURSIVE str_len(_)
str_len(text) == IF text = <<>> THEN 0 ELSE len_utf8(Head(text)) + str_len(Tail(text))

validate_app_id(app_id) ==
    IF app_id = <<>> \/ str_len(app_id) > 64 THEN FALSE
    ELSE \A i \in 1..Len(app_id) :
            is_alphanumeric(app_id[i]) \/ app_id[i] = "-" \/ app_id[i] = "_"

-----------------------------------------------------------------------------
(* The task machine (src/boot/task_manager.rs) *)

Pending == <<"Pending">>
Running == <<"Running">>
Completed(app_id, deployer) == <<"Completed", app_id, deployer>>
Failed(error) == <<"Failed", error>>

StatusKind(task) == task.status[1]

IsTerminal(task) == StatusKind(task) \in {"Completed", "Failed"}

Task_new(id, time) ==
    [id |-> id, status |-> Pending, created_at |-> time, updated_at |-> time]

(* "task-" + Uuid::new_v4(): an id no task has; ids are interchangeable and
   the model takes the least one *)
FreshTaskIds ==
    {id \in TaskIds : id \notin DOMAIN tasks /\ \A j \in 1..(id - 1) : j \in DOMAIN tasks}

create_task(ts, id, time) == Put(ts, id, Task_new(id, time))

update_task_status(ts, task_id, status, time) ==
    IF task_id \in DOMAIN ts
    THEN [ts EXCEPT ![task_id].status = status, ![task_id].updated_at = time]
    ELSE ts

mark_running(ts, task_id, time) == update_task_status(ts, task_id, Running, time)

mark_completed(ts, task_id, app_id, deployer, time) ==
    update_task_status(ts, task_id, Completed(app_id, deployer), time)

mark_failed(ts, task_id, error, time) ==
    update_task_status(ts, task_id, Failed(error), time)

-----------------------------------------------------------------------------
(* The Boot Service (src/boot/mod.rs) *)

validate_request(request) ==
    IF request.compose_content = <<>> THEN "Compose content cannot be empty"
    ELSE IF request.app_id = <<>> THEN "App ID cannot be empty"
    ELSE IF ~validate_app_id(request.app_id) THEN "Invalid app ID format"
    ELSE IF Len(request.deployer) # 64 THEN "Deployer must be 64 bytes"
    ELSE "Ok"

(* the TappError of a failed validation: a DockerError *)
validation_error(reason) == <<"Docker", "InvalidComposeContent", reason>>

(* From<TappError> for tonic::Status (src/error.rs): the code of the status *)
status_code(err) ==
    CASE err[1] = "InvalidParameter" -> "InvalidArgument"
      [] err[1] = "ServiceUnavailable" -> "Unavailable"
      [] err[1] = "Attestation" /\ err[2] = "TeeNotSupported" -> "FailedPrecondition"
      [] err[1] = "Kbs" /\ err[2] = "AuthenticationFailed" -> "Unauthenticated"
      [] err[1] = "Kbs" /\ err[2] = "ResourceNotFound" -> "NotFound"
      [] err[1] = "Docker" /\ err[2] = "ServiceNotFound" -> "NotFound"
      [] err[1] = "Config" -> "FailedPrecondition"
      [] OTHER -> "Internal"

(* the status the start_app handler answers with: the one of the validation
   error, or Ok with the id of the task *)
start_app_status(request) ==
    IF validate_request(request) # "Ok"
    THEN status_code(validation_error(validate_request(request)))
    ELSE "Ok"

(* _start_app's conversion of the request's mount files *)
convert_mount_files(request) ==
    [i \in 1..Len(request.mount_files) |->
        [source_path |-> request.mount_files[i].source_path,
         content |-> request.mount_files[i].content,
         mode |-> IF request.mount_files[i].mode = "" THEN "0644"
                  ELSE request.mount_files[i].mode]]

(* calculate_mount_files_hash of the converted mount files of every request of
   the model: a pure function of the request, computed once *)
MountFilesHashes ==
    [request \in ModelRequests |->
        calculate_mount_files_hash(convert_mount_files(request))]

(* calculate_compose_hash of the compose text of every request of the model,
   computed once: the hash, or nothing when the text does not parse *)
ComposeHashes ==
    [request \in ModelRequests |->
        IF yaml_parses(request.compose_content)
        THEN <<calculate_compose_hash(request.compose_content)>>
        ELSE <<>>]

(* calculate_app_measurement, once the compose text has parsed *)
calculate_app_measurement(request, app_id, time) ==
    [app_id |-> app_id,
     compose_hash |-> ComposeHashes[request][1],
     volumes_hash |-> MountFilesHashes[request][1],
     deployer |-> hex_encode(request.deployer),
     timestamp |-> time]

ZGEL_DOMAIN == "tapp.0g.com"
OPERATION_NAME_START_APP == "start_app"

(* the handler's and the worker's locals; existing is history: whether the
   app_id had a measurement when start_app was called *)
Worker(pc, request) ==
    [pc |-> pc, request |-> request, measurement |-> <<>>, error |-> None,
     existing |-> request.app_id \in DOMAIN app_measurements]

WorkerAt(task_id, pc) == task_id \in DOMAIN workers /\ workers[task_id].pc = pc

Goto(task_id, pc) == workers' = [workers EXCEPT ![task_id].pc = pc]

Fail(task_id, error) ==
    workers' = [workers EXCEPT ![task_id].pc = "finish", ![task_id].error = error]

(* start_app up to create_task: a request that fails validation gets an error
   and changes nothing *)
StartApp(request) ==
    /\ IF validate_request(request) # "Ok"
       THEN UNCHANGED <<tasks, workers>>
       ELSE \E id \in FreshTaskIds :
               /\ tasks' = create_task(tasks, id, now)
               /\ workers' = Put(workers, id, Worker("mark_running", request))
    /\ UNCHANGED <<now, sideVars, app_measurements, app_compose_content, app_mount_files,
                   rtmr, inserted, extended, app_containers, keyVars, nonceVars>>

(* start_app spawning the worker without the mark_running before it *)
StartAppSpawnUnmarked(task_id) ==
    /\ WorkerAt(task_id, "mark_running")
    /\ Goto(task_id, "check")
    /\ UNCHANGED <<now, sideVars, tasks, app_measurements, app_compose_content, app_mount_files,
                   rtmr, inserted, extended, app_containers, keyVars, nonceVars>>

(* start_app from mark_running: the worker is spawned and the task id returned *)
StartAppMarkRunning(task_id) ==
    /\ WorkerAt(task_id, "mark_running")
    /\ tasks' = mark_running(tasks, task_id, now)
    /\ Goto(task_id, "check")
    /\ UNCHANGED <<now, sideVars, app_measurements, app_compose_content, app_mount_files,
                   rtmr, inserted, extended, app_containers, keyVars, nonceVars>>

(* _start_app without the contains_key check *)
WorkerCheckNoLookup(task_id) ==
    /\ WorkerAt(task_id, "check")
    /\ LET request == workers[task_id].request
           app_id == request.app_id
       IN  IF ComposeHashes[request] = <<>>
           THEN Fail(task_id, "Docker error: Invalid compose content: YAML parse error")
           ELSE workers' = [workers EXCEPT
                    ![task_id].pc = "store_compose",
                    ![task_id].measurement =
                        <<calculate_app_measurement(request, app_id, now)>>]
    /\ UNCHANGED <<now, sideVars, tasks, app_measurements, app_compose_content, app_mount_files,
                   rtmr, inserted, extended, app_containers, keyVars, nonceVars>>

(* _start_app: the contains_key check, then the measurement *)
WorkerCheck(task_id) ==
    /\ WorkerAt(task_id, "check")
    /\ LET request == workers[task_id].request
           app_id == request.app_id
       IN  IF app_id \in DOMAIN app_measurements
           THEN Fail(task_id, "Invalid parameter: app_id - Application already exists")
           ELSE IF ComposeHashes[request] = <<>>
           THEN Fail(task_id, "Docker error: Invalid compose content: YAML parse error")
           ELSE workers' = [workers EXCEPT
                    ![task_id].pc = "store_compose",
                    ![task_id].measurement =
                        <<calculate_app_measurement(request, app_id, now)>>]
    /\ UNCHANGED <<now, sideVars, tasks, app_measurements, app_compose_content, app_mount_files,
                   rtmr, inserted, extended, app_containers, keyVars, nonceVars>>

WorkerStoreCompose(task_id) ==
    /\ WorkerAt(task_id, "store_compose")
    /\ app_compose_content' =
          Put(app_compose_content, workers[task_id].request.app_id,
              workers[task_id].request.compose_content)
    /\ Goto(task_id, "store_mounts")
    /\ UNCHANGED <<now, sideVars, tasks, app_measurements, app_mount_files,
                   rtmr, inserted, extended, app_containers, keyVars, nonceVars>>

WorkerStoreMounts(task_id) ==
    /\ WorkerAt(task_id, "store_mounts")
    /\ app_mount_files' =
          Put(app_mount_files, workers[task_id].request.app_id,
              MountFilesHashes[workers[task_id].request][2])
    /\ Goto(task_id, "deploy")
    /\ UNCHANGED <<now, sideVars, tasks, app_measurements, app_compose_content,
                   rtmr, inserted, extended, app_containers, keyVars, nonceVars>>

(* the errors of deploy_compose, as _start_app formats them: the directory or
   a file cannot be written, docker cannot be spawned, compose up exits with a
   status that is not zero *)
DeployErrors ==
    { "Docker error: Volume measurement failed: Failed to write file",
      "Docker error: Container operation failed: docker_compose_up - Failed to execute docker compose command",
      "Docker error: Container operation failed: docker_compose_up" }

(* deploy_compose with its error kept but not propagated by the ? operator *)
WorkerDeployUnchecked(task_id) ==
    /\ WorkerAt(task_id, "deploy")
    /\ \E outcome \in {"Ok"} \cup DeployErrors :
          IF outcome = "Ok" THEN Goto(task_id, "insert")
          ELSE workers' = [workers EXCEPT ![task_id].pc = "insert",
                                          ![task_id].error = outcome]
    /\ UNCHANGED <<now, sideVars, tasks, app_measurements, app_compose_content, app_mount_files,
                   rtmr, inserted, extended, app_containers, keyVars, nonceVars>>

(* deploy_compose under the manager lock: the file writes, the spawn or the
   exit status of compose up may fail *)
WorkerDeploy(task_id) ==
    /\ WorkerAt(task_id, "deploy")
    /\ \E outcome \in {"Ok"} \cup DeployErrors :
          IF outcome = "Ok" THEN Goto(task_id, "insert") ELSE Fail(task_id, outcome)
    /\ UNCHANGED <<now, sideVars, tasks, app_measurements, app_compose_content, app_mount_files,
                   rtmr, inserted, extended, app_containers, keyVars, nonceVars>>

WorkerInsert(task_id) ==
    /\ WorkerAt(task_id, "insert")
    /\ app_measurements' =
          Put(app_measurements, workers[task_id].request.app_id,
              workers[task_id].measurement[1])
    /\ inserted' = inserted \cup {<<task_id, workers[task_id].measurement[1]>>}
    /\ Goto(task_id, "extend")
    /\ UNCHANGED <<now, sideVars, tasks, app_compose_content, app_mount_files,
                   rtmr, extended, app_containers, keyVars, nonceVars>>

(* extend_runtime_measurement under the attestation agent's lock *)
WorkerExtend(task_id) ==
    /\ WorkerAt(task_id, "extend")
    /\ \E outcome \in {"Ok", "Attestation error: RTMR extension failed"} :
          IF outcome = "Ok"
          THEN /\ rtmr' = Append(rtmr, [domain |-> ZGEL_DOMAIN,
                                        operation |-> OPERATION_NAME_START_APP,
                                        content |-> to_json(workers[task_id].measurement[1])])
               /\ extended' = extended \cup
                                 {<<task_id, to_json(workers[task_id].measurement[1])>>}
               /\ Goto(task_id, "finish")
          ELSE /\ Fail(task_id, outcome)
               /\ UNCHANGED <<rtmr, extended>>
    /\ UNCHANGED <<now, sideVars, tasks, app_measurements, app_compose_content, app_mount_files,
                   inserted, app_containers, keyVars, nonceVars>>

(* the match on the result with the Err arm left out *)
WorkerFinishOkOnly(task_id) ==
    /\ WorkerAt(task_id, "finish")
    /\ tasks' = IF workers[task_id].error = None
                THEN mark_completed(tasks, task_id, workers[task_id].request.app_id,
                                    workers[task_id].request.deployer, now)
                ELSE tasks
    /\ Goto(task_id, "done")
    /\ UNCHANGED <<now, sideVars, app_measurements, app_compose_content, app_mount_files,
                   rtmr, inserted, extended, app_containers, keyVars, nonceVars>>

(* the match on the result: mark_completed or mark_failed *)
WorkerFinish(task_id) ==
    /\ WorkerAt(task_id, "finish")
    /\ tasks' = IF workers[task_id].error = None
                THEN mark_completed(tasks, task_id, workers[task_id].request.app_id,
                                    workers[task_id].request.deployer, now)
                ELSE mark_failed(tasks, task_id, workers[task_id].error, now)
    /\ Goto(task_id, "done")
    /\ UNCHANGED <<now, sideVars, app_measurements, app_compose_content, app_mount_files,
                   rtmr, inserted, extended, app_containers, keyVars, nonceVars>>

Without(m, k) == [x \in (DOMAIN m) \ {k} |-> m[x]]

(* DockerComposeManager::stop_compose: the result and the tracking map it
   leaves; a container that fails to stop is logged only *)
stop_compose(containers, app_id) ==
    IF app_id \in DOMAIN containers
    THEN [result |-> <<"Ok">>, containers |-> Without(containers, app_id)]
    ELSE [result |-> <<"Err", <<"Docker", "ServiceNotFound", app_id>>>>,
          containers |-> containers]

(* a stop_app that also forgets what the service knows of the app *)
StopAppForgetting(app_id) ==
    \E out \in {stop_compose(app_containers, app_id)} :
        /\ app_containers' = out.containers
        /\ applied' = [op |-> "stop_app", input |-> app_id, output |-> out.result]
        /\ app_measurements' = Without(app_measurements, app_id)
        /\ app_compose_content' = Without(app_compose_content, app_id)
        /\ app_mount_files' = Without(app_mount_files, app_id)
        /\ app_keys' = Without(app_keys, app_id)
        /\ UNCHANGED <<now, locks, procs, calls, tasks, workers, rtmr, inserted, extended,
                       released, denied, use_in_memory, nonceVars>>

(* stop_app: stop_compose under the manager lock; applied keeps the call and
   its result *)
StopApp(app_id) ==
    \E out \in {stop_compose(app_containers, app_id)} :
        /\ app_containers' = out.containers
        /\ applied' = [op |-> "stop_app", input |-> app_id, output |-> out.result]
        /\ UNCHANGED <<now, locks, procs, calls, tasks, workers, app_measurements,
                       app_compose_content, app_mount_files, rtmr, inserted, extended,
                       keyVars, nonceVars>>

(* BootService::get_app_compose_content and get_app_mount_files: Options *)
get_app_compose_content(app_id) ==
    IF app_id \in DOMAIN app_compose_content THEN <<app_compose_content[app_id]>> ELSE <<>>

get_app_mount_files(app_id) ==
    IF app_id \in DOMAIN app_mount_files THEN <<app_mount_files[app_id]>> ELSE <<>>

(* the get_app_info handler of lib.rs: both stored texts, or InvalidParameter
   when either is missing *)
get_app_info(app_id) ==
    IF get_app_compose_content(app_id) = <<>> \/ get_app_mount_files(app_id) = <<>>
    THEN [result |-> <<"Err", <<"InvalidParameter", "app_id", "App not found">>>>,
          compose_content |-> <<>>, volumes_content |-> <<>>]
    ELSE [result |-> <<"Ok">>,
          compose_content |-> get_app_compose_content(app_id)[1],
          volumes_content |-> get_app_mount_files(app_id)[1]]

(* str::to_lowercase on the characters the model uses *)
LowerChar(c) ==
    CASE c = "A" -> "a" [] c = "B" -> "b" [] c = "C" -> "c"
      [] c = "D" -> "d" [] c = "E" -> "e" [] c = "F" -> "f"
      [] c = "X" -> "x"
      [] OTHER -> c

to_lowercase(s) == [i \in 1..Len(s) |-> LowerChar(s[i])]

RECURSIVE trim_start_matches(_, _)
trim_start_matches(s, prefix) ==
    IF Len(s) >= Len(prefix) /\ SubSeq(s, 1, Len(prefix)) = prefix
    THEN trim_start_matches(SubSeq(s, Len(prefix) + 1, Len(s)), prefix)
    ELSE s

contains(s, sub) ==
    \E i \in 0..(Len(s) - Len(sub)) : SubSeq(s, i + 1, i + Len(sub)) = sub

(* the filter closure of list_app_measurements; deployer_filter is an Option:
   <<>> is None and <<text>> is Some(text) *)
PassesFilter(m, deployer_filter) ==
    IF deployer_filter = <<>> THEN TRUE
    ELSE contains(to_lowercase(m.deployer),
                  to_lowercase(trim_start_matches(deployer_filter[1], <<"0", "x">>)))

(* what list_app_measurements can return: the filtered records, newest first;
   records of one timestamp come in the map's iteration order, any order *)
AppMeasurementLists(deployer_filter) ==
    LET keep == {a \in DOMAIN app_measurements :
                    PassesFilter(app_measurements[a], deployer_filter)}
        orders == {order \in [1..Cardinality(keep) -> keep] :
                     /\ \A i, j \in 1..Cardinality(keep) : order[i] = order[j] => i = j
                     /\ \A i, j \in 1..Cardinality(keep) :
                           i < j => app_measurements[order[i]].timestamp
                                    >= app_measurements[order[j]].timestamp}
    IN  {[i \in 1..Cardinality(keep) |-> app_measurements[order[i]]] : order \in orders}

list_app_measurements(deployer_filter) ==
    CHOOSE list \in AppMeasurementLists(deployer_filter) : TRUE

(* the list_app_measurements handler of lib.rs: an empty filter text is no
   filter; the answer carries the fields of every record returned *)
ListAppMeasurements(deployer_filter) ==
    /\ \E list \in AppMeasurementLists(IF deployer_filter = <<>> THEN <<>>
                                        ELSE <<deployer_filter>>) :
          applied' = [op |-> "list_app_measurements", input |-> deployer_filter,
                      output |-> list]
    /\ UNCHANGED <<now, bootVars, keyVars, nonceVars, locks, procs, calls>>

-----------------------------------------------------------------------------
(* The nonce ledger (src/nonce_manager.rs) *)

abs(x) == IF x < 0 THEN 0 - x ELSE x

NonceOk == <<"Ok">>
NonceReplay == <<"Nonce already used (replay attack detected)">>
NonceOutsideWindow(time_diff, window) ==
    <<"Timestamp outside validity window", time_diff, window>>

(* a verify_and_consume without the contains_key check: the insert overwrites *)
verify_and_consume_unchecked(nonces, window, nonce, timestamp, current_time) ==
    LET time_diff == abs(current_time - timestamp)
    IN  IF time_diff > window
        THEN [result |-> NonceOutsideWindow(time_diff, window), nonces |-> nonces]
        ELSE [result |-> NonceOk, nonces |-> Put(nonces, nonce, timestamp + window)]

(* a verify_and_consume that refuses a drift equal to the window *)
verify_and_consume_strict(nonces, window, nonce, timestamp, current_time) ==
    LET time_diff == abs(current_time - timestamp)
    IN  IF time_diff >= window
        THEN [result |-> NonceOutsideWindow(time_diff, window), nonces |-> nonces]
        ELSE IF nonce \in DOMAIN nonces
        THEN [result |-> NonceReplay, nonces |-> nonces]
        ELSE [result |-> NonceOk, nonces |-> Put(nonces, nonce, timestamp + window)]

(* a verify_and_consume that checks the window and the ledger but records
   nothing *)
verify_only(nonces, window, nonce, timestamp, current_time) ==
    LET time_diff == abs(current_time - timestamp)
    IN  IF time_diff > window
        THEN [result |-> NonceOutsideWindow(time_diff, window), nonces |-> nonces]
        ELSE IF nonce \in DOMAIN nonces
        THEN [result |-> NonceReplay, nonces |-> nonces]
        ELSE [result |-> NonceOk, nonces |-> nonces]

(* verify_and_consume at current_time: the result and the ledger it leaves *)
verify_and_consume(nonces, window, nonce, timestamp, current_time) ==
    LET time_diff == abs(current_time - timestamp)
    IN  IF time_diff > window
        THEN [result |-> NonceOutsideWindow(time_diff, window), nonces |-> nonces]
        ELSE IF nonce \in DOMAIN nonces
        THEN [result |-> NonceReplay, nonces |-> nonces]
        ELSE [result |-> NonceOk, nonces |-> Put(nonces, nonce, timestamp + window)]

(* a sweep that drops an entry one second before its expiry *)
cleanup_nonces_early(nonces, current_time) ==
    [n \in {x \in DOMAIN nonces : nonces[x] > current_time + 1} |-> nonces[n]]

cleanup_expired_nonces(nonces, current_time) ==
    [n \in {x \in DOMAIN nonces : nonces[x] > current_time} |-> nonces[n]]

NonceCall(nonce, timestamp, time) ==
    [nonce |-> nonce, timestamp |-> timestamp, time |-> time]

(* the history after a verify_and_consume call *)
RecordNonceCall(nonce, timestamp, result) ==
    consumed' = IF result = NonceOk
                THEN Append(consumed, NonceCall(nonce, timestamp, now))
                ELSE consumed

NonceN == <<"n">>
NonceX == <<"x">>
Nonces == {NonceN, NonceX}

NonceWindows == {1, 2}

(* timestamps around the clock and around both edges of the window *)
Timestamps(window) ==
    {now + d : d \in {0 - (window + 1), 0 - window, 0, window, window + 1}}

VerifyAndConsume(nonce, timestamp) ==
    /\ Len(consumed) < MaxConsumed
    /\ LET call == verify_and_consume(used_nonces, validity_window, nonce, timestamp, now)
       IN  /\ used_nonces' = call.nonces
           /\ RecordNonceCall(nonce, timestamp, call.result)
    /\ UNCHANGED <<now, sideVars, validity_window, bootVars, keyVars>>

(* the background task of with_validity_window: its sleep ends at any time *)
Sweep ==
    /\ used_nonces' = cleanup_expired_nonces(used_nonces, now)
    /\ UNCHANGED <<now, sideVars, validity_window, consumed, bootVars, keyVars>>

-----------------------------------------------------------------------------
(* The key service (src/app_key/mod.rs) *)

KeySeeds == {1, 2}

(* VerifyingKey::to_encoded_point(false): the 0x04 tag, then the 64 bytes of
   the point *)
to_encoded_point(k) == <<4>> \o pub_of(k)

(* generate_eth_keypair: a random private key, the encoded point of its public
   key, with the tag, and the address *)
generate_eth_keypair(seed) ==
    [private_key |-> seed,
     public_key |-> to_encoded_point(seed),
     eth_address |-> <<"address", seed>>]

(* a get_or_create_in_memory_key that generates and stores a pair at every call *)
create_in_memory_key(keys, app_id, seed) == Put(keys, app_id, generate_eth_keypair(seed))

(* get_or_create_in_memory_key: the map it leaves *)
get_or_create_in_memory_key(keys, app_id, seed) ==
    IF app_id \in DOMAIN keys THEN keys ELSE Put(keys, app_id, generate_eth_keypair(seed))

Status(code, message) == [code |-> code, message |-> message, key |-> <<>>]

(* AppKeyService::get_app_key, then the conversion of an error into a status *)
get_app_key(keys, in_memory, app_id, key_type, seed) ==
    IF in_memory
    THEN IF key_type = "ethereum"
         THEN LET keys2 == get_or_create_in_memory_key(keys, app_id, seed)
              IN  [status |-> [code |-> "Ok",
                               message |-> <<"In-memory Ethereum key for app", app_id>>,
                               key |-> <<[public_key |-> keys2[app_id].public_key,
                                          eth_address |-> keys2[app_id].eth_address,
                                          key_source |-> "in-memory"]>>],
                   keys |-> keys2]
         ELSE [status |-> Status("Internal", <<"Unsupported key type", key_type>>),
               keys |-> keys]
    ELSE [status |-> [code |-> "Ok",
                      message |-> <<"Key from KBS for app", app_id>>,
                      key |-> <<[public_key |-> <<"mock-key-data-for-kbs:///default/key/", app_id>>,
                                 eth_address |-> <<>>,
                                 key_source |-> "kbs"]>>],
          keys |-> keys]

(* a get_private_key that refuses in every mode *)
get_private_key_unsupported(keys, in_memory, app_id) ==
    Status("Internal", <<"Private key retrieval only supported in in-memory mode">>)

(* AppKeyService::get_private_key, then the conversion of an error *)
get_private_key(keys, in_memory, app_id) ==
    IF ~in_memory
    THEN Status("Internal", <<"Private key retrieval only supported in in-memory mode">>)
    ELSE IF app_id \in DOMAIN keys
    THEN [code |-> "Ok", message |-> <<>>, key |-> <<keys[app_id].private_key>>]
    ELSE Status("NotFound", <<"Service not found: Key for app_id", app_id>>)

(* A signature is the signer's private key and the signed bytes; 64 bytes that
   are no r || s pair are Malformed *)
Malformed == <<"malformed">>

sign_message(private_key, message) == <<"signature", private_key, message>>

(* verify_signature: <<"Ok", valid>> or <<"Err", reason>> *)
verify_signature(public_key, message, signature) ==
    IF Len(public_key) # 64 THEN <<"Err", "Public key must be 64 bytes">>
    ELSE IF ~on_curve(public_key) THEN <<"Err", "Invalid public key">>
    ELSE IF signature = Malformed THEN <<"Err", "Invalid signature">>
    ELSE <<"Ok", \E k \in PrivKeys :
                     public_key = pub_of(k) /\ signature = sign_message(k, message)>>

-----------------------------------------------------------------------------
(* The privileged key retrieval (src/lib.rs) *)

V4(a, b, c, d) == <<"V4", <<a, b, c, d>>>>
V6(segments) == <<"V6", segments>>

(* IpAddr::is_loopback: 127.0.0.0/8 and ::1 *)
is_loopback(ip) ==
    IF ip[1] = "V4" THEN ip[2][1] = 127 ELSE ip[2] = <<0, 0, 0, 0, 0, 0, 0, 1>>

(* an access check for the whole private block 172.16.0.0/12 *)
is_allowed_private_access(ip) ==
    IF is_loopback(ip) THEN TRUE
    ELSE IF ip[1] = "V4" /\ ip[2][1] = 172 /\ ip[2][2] >= 16 /\ ip[2][2] <= 31 THEN TRUE
    ELSE FALSE

(* an access check that lets every address in *)
is_allowed_any_access(ip) == TRUE

is_allowed_local_access(ip) ==
    IF is_loopback(ip) THEN TRUE
    ELSE IF ip[1] = "V4" /\ ip[2][1] = 172 /\ ip[2][2] = 17 THEN TRUE
    ELSE IF ip[1] = "V4" /\ ip[2][1] = 172 /\ ip[2][2] >= 18 /\ ip[2][2] <= 31 THEN TRUE
    ELSE FALSE

(* i64::to_le_bytes, for the values a 32-bit integer holds *)
to_le_bytes(v) ==
    [i \in 1..8 |-> IF i <= 4 THEN (v \div (256 ^ (i - 1))) % 256
                    ELSE IF v < 0 THEN 255 ELSE 0]

SignedMessage(app_id, nonce, timestamp) ==
    as_bytes(app_id) \o as_bytes(nonce) \o to_le_bytes(timestamp)

find(list, app_id) ==
    LET found == {i \in 1..Len(list) : list[i].app_id = app_id}
    IN  IF found = {} THEN <<>>
        ELSE <<list[CHOOSE i \in found : \A j \in found : i <= j]>>

(* get_app_secret_key: the response, the nonce call it made if any, and the
   ledger and keys it leaves *)
get_app_secret_key(request, seed) ==
    LET unchanged(response, call, nonces) ==
            [response |-> response, call |-> call, nonces |-> nonces, keys |-> app_keys,
             deployer |-> <<>>]
        is_allowed == IF request.remote_addr # <<>>
                      THEN is_allowed_local_access(request.remote_addr[1])
                      ELSE TRUE
        consume == verify_and_consume(used_nonces, validity_window,
                                      request.nonce, request.timestamp, now)
        call == <<consume.result>>
        app_measurement == find(list_app_measurements(<<>>), request.app_id)
        deployer_hex == app_measurement[1].deployer
        signature_valid == verify_signature(hex_decode(deployer_hex),
                              SignedMessage(request.app_id, request.nonce, request.timestamp),
                              request.signature)
        key_response == get_app_key(app_keys, use_in_memory, request.app_id, "ethereum", seed)
        private_key == get_private_key(key_response.keys, use_in_memory, request.app_id)
    IN  IF ~is_allowed
        THEN unchanged(Status("PermissionDenied",
                 <<"GetAppSecretKey can only be called from localhost or same-host Docker containers">>),
                 <<>>, used_nonces)
        ELSE IF consume.result # NonceOk
        THEN unchanged(Status("PermissionDenied",
                 <<"Nonce verification failed">> \o consume.result), call, consume.nonces)
        ELSE IF app_measurement = <<>>
        THEN unchanged(Status("NotFound", <<"App not found", request.app_id>>),
                       call, consume.nonces)
        ELSE IF ~IsHexText(deployer_hex)
        THEN unchanged(Status("Internal", <<"Failed to decode deployer public key">>),
                       call, consume.nonces)
        ELSE IF signature_valid[1] = "Err"
        THEN unchanged(Status("Internal",
                 <<"Signature verification error", signature_valid[2]>>), call, consume.nonces)
        ELSE IF ~signature_valid[2]
        THEN unchanged(Status("PermissionDenied",
                 <<"Invalid deployer signature. Only the app deployer can access the private key.">>),
                 call, consume.nonces)
        ELSE IF key_response.status.code # "Ok"
        THEN unchanged(key_response.status, call, consume.nonces)
        ELSE IF private_key.code # "Ok"
        THEN [response |-> private_key, call |-> call, nonces |-> consume.nonces,
              keys |-> key_response.keys, deployer |-> <<>>]
        ELSE [response |-> [code |-> "Ok",
                            message |-> <<"Private key for app", request.app_id>>,
                            key |-> <<[private_key |-> private_key.key[1],
                                       public_key |-> key_response.status.key[1].public_key,
                                       eth_address |-> key_response.status.key[1].eth_address]>>],
              call |-> call, nonces |-> consume.nonces, keys |-> key_response.keys,
              deployer |-> <<deployer_hex>>]

KeyRequest(remote_addr, app_id, nonce, timestamp, signature) ==
    [remote_addr |-> remote_addr, app_id |-> app_id, nonce |-> nonce,
     timestamp |-> timestamp, signature |-> signature]

(* a handler that records the nonce of every request, the ones it refuses
   for their origin included *)
SecretKeyEffectsLedgerFirst(request, out) ==
    /\ used_nonces' = verify_and_consume(used_nonces, validity_window,
                                         request.nonce, request.timestamp, now).nonces
    /\ app_keys' = out.keys
    /\ IF out.call = <<>>
       THEN UNCHANGED consumed
       ELSE RecordNonceCall(request.nonce, request.timestamp, out.call[1])
    /\ released' = IF out.deployer = <<>> THEN released
                   ELSE released \cup {<<request.app_id, out.deployer[1]>>}
    /\ denied' = IF out.call = <<NonceOk>> /\ out.response.code = "PermissionDenied"
                 THEN denied \cup {<<request.nonce, request.timestamp>>}
                 ELSE denied

(* what the handler leaves behind: the ledger, the key store and the
   histories *)
SecretKeyEffects(request, out) ==
    /\ used_nonces' = out.nonces
    /\ app_keys' = out.keys
    /\ IF out.call = <<>>
       THEN UNCHANGED consumed
       ELSE RecordNonceCall(request.nonce, request.timestamp, out.call[1])
    /\ released' = IF out.deployer = <<>> THEN released
                   ELSE released \cup {<<request.app_id, out.deployer[1]>>}
    /\ denied' = IF out.call = <<NonceOk>> /\ out.response.code = "PermissionDenied"
                 THEN denied \cup {<<request.nonce, request.timestamp>>}
                 ELSE denied

GetAppSecretKey(request) ==
    /\ \E seed \in KeySeeds : \E out \in {get_app_secret_key(request, seed)} :
              SecretKeyEffects(request, out)
    /\ UNCHANGED <<now, sideVars, validity_window, use_in_memory, bootVars>>

(* the handler with its request and its answer kept *)
GetAppSecretKeyAnswered(request) ==
    /\ \E seed \in KeySeeds : \E out \in {get_app_secret_key(request, seed)} :
              /\ SecretKeyEffects(request, out)
              /\ applied' = [op |-> "get_app_secret_key", input |-> request,
                             output |-> out.response]
    /\ UNCHANGED <<now, locks, procs, calls, validity_window, use_in_memory, bootVars>>

(* the get_app_key handler: an empty key type stands for "ethereum" *)
GetAppKey(app_id, key_type) ==
    /\ \E seed \in KeySeeds :
          app_keys' = get_app_key(app_keys, use_in_memory, app_id,
                                  IF key_type = "" THEN "ethereum" ELSE key_type, seed).keys
    /\ UNCHANGED <<now, sideVars, released, denied, use_in_memory, bootVars, nonceVars>>

(* the clock *)
Tick ==
    /\ now < MaxTime
    /\ now' = now + 1
    /\ UNCHANGED <<bootVars, keyVars, nonceVars, sideVars>>

DefaultValidityWindow == 300

(* The state after TappServiceImpl::new, with in-memory keys or a key broker,
   its nonce ledger made by with_validity_window(window) *)
Construct(in_memory, window) ==
    /\ now = 0
    /\ tasks = EmptyMap
    /\ workers = EmptyMap
    /\ app_measurements = EmptyMap
    /\ app_compose_content = EmptyMap
    /\ app_mount_files = EmptyMap
    /\ rtmr = <<>>
    /\ inserted = {}
    /\ extended = {}
    /\ app_containers = EmptyMap
    /\ app_keys = EmptyMap
    /\ use_in_memory = in_memory
    /\ used_nonces = EmptyMap
    /\ validity_window = window
    /\ released = {}
    /\ denied = {}
    /\ consumed = <<>>
    /\ applied = NoCall
    /\ locks = Unlocked
    /\ procs = EmptyMap
    /\ calls = <<>>

Init == Construct(TRUE, DefaultValidityWindow)

Next ==
    \/ \E request \in StartAppRequests : StartApp(request)
    \/ \E task_id \in TaskIds : StartAppMarkRunning(task_id)
    \/ \E task_id \in TaskIds : WorkerCheck(task_id)
    \/ \E task_id \in TaskIds : WorkerStoreCompose(task_id)
    \/ \E task_id \in TaskIds : WorkerStoreMounts(task_id)
    \/ \E task_id \in TaskIds : WorkerDeploy(task_id)
    \/ \E task_id \in TaskIds : WorkerInsert(task_id)
    \/ \E task_id \in TaskIds : WorkerExtend(task_id)
    \/ \E task_id \in TaskIds : WorkerFinish(task_id)
    \/ \E app_id \in AppIds : StopApp(app_id)
    \/ Tick

Spec == Init /\ [][Next]_vars

-----------------------------------------------------------------------------
(* The task machine called directly, in any order *)

TaskErrors == {"e1", "e2"}

CreateTask ==
    /\ \E id \in FreshTaskIds : tasks' = create_task(tasks, id, now)
    /\ UNCHANGED <<now, sideVars, workers, app_measurements, app_compose_content, app_mount_files,
                   rtmr, inserted, extended, app_containers, keyVars, nonceVars>>

MarkRunning(task_id) ==
    /\ tasks' = mark_running(tasks, task_id, now)
    /\ UNCHANGED <<now, sideVars, workers, app_measurements, app_compose_content, app_mount_files,
                   rtmr, inserted, extended, app_containers, keyVars, nonceVars>>

MarkCompleted(task_id, app_id, deployer) ==
    /\ tasks' = mark_completed(tasks, task_id, app_id, deployer, now)
    /\ UNCHANGED <<now, sideVars, workers, app_measurements, app_compose_content, app_mount_files,
                   rtmr, inserted, extended, app_containers, keyVars, nonceVars>>

MarkFailed(task_id, error) ==
    /\ tasks' = mark_failed(tasks, task_id, error, now)
    /\ UNCHANGED <<now, sideVars, workers, app_measurements, app_compose_content, app_mount_files,
                   rtmr, inserted, extended, app_containers, keyVars, nonceVars>>

TaskNext ==
    \/ CreateTask
    \/ \E task_id \in TaskIds : MarkRunning(task_id)
    \/ \E task_id \in TaskIds, app_id \in AppIds : MarkCompleted(task_id, app_id, pub_of(1))
    \/ \E task_id \in TaskIds, error \in TaskErrors : MarkFailed(task_id, error)
    \/ Tick

TaskSpec == Init /\ [][TaskNext]_vars

-----------------------------------------------------------------------------
(* The deployment with the scheduling the runtime gives: a spawned worker and
   a handler past create_task keep running, and every lock, subprocess and
   attestation call returns *)

WorkerStep(task_id) ==
    \/ StartAppMarkRunning(task_id)
    \/ WorkerCheck(task_id)
    \/ WorkerStoreCompose(task_id)
    \/ WorkerStoreMounts(task_id)
    \/ WorkerDeploy(task_id)
    \/ WorkerInsert(task_id)
    \/ WorkerExtend(task_id)
    \/ WorkerFinish(task_id)

LiveNext ==
    \/ \E request \in StartAppRequests : StartApp(request)
    \/ \E task_id \in TaskIds : WorkerStep(task_id)

LiveSpec == Init /\ [][LiveNext]_vars /\ \A task_id \in TaskIds : WF_vars(WorkerStep(task_id))

-----------------------------------------------------------------------------
(* The nonce ledger on its own, made by with_validity_window *)

NonceInit == \E window \in NonceWindows : Construct(TRUE, window)

NonceNext ==
    \/ \E nonce \in Nonces, timestamp \in Timestamps(validity_window) :
          VerifyAndConsume(nonce, timestamp)
    \/ Sweep
    \/ Tick

NonceSpec == NonceInit /\ [][NonceNext]_vars

-----------------------------------------------------------------------------
(* verify_and_consume calls that run together, next to the sweeper and the
   clock: a call reads the clock, and then, with the window check passed,
   takes the write lock of the ledger for the lookup and the insert *)

MaxCalls == 2

CallFrame == UNCHANGED <<now, applied, locks, procs, validity_window, bootVars, keyVars>>

(* a call arrives; together tells whether another call is still running *)
CallArrives(nonce, timestamp) ==
    /\ Len(calls) < MaxCalls
    /\ calls' = Append(calls, [nonce |-> nonce, timestamp |-> timestamp, pc |-> "clock",
                               current_time |-> 0, result |-> <<>>, ended |-> 0,
                               together |-> \E c \in 1..Len(calls) : calls[c].pc # "done"])
    /\ UNCHANGED <<used_nonces, consumed>>
    /\ CallFrame

(* chrono::Utc::now().timestamp() *)
CallReadsClock(c) ==
    /\ c \in 1..Len(calls) /\ calls[c].pc = "clock"
    /\ calls' = [calls EXCEPT ![c].pc = "ledger", ![c].current_time = now]
    /\ UNCHANGED <<used_nonces, consumed>>
    /\ CallFrame

(* the window check on the clock read, and under the write lock the lookup
   and the insert *)
CallReturns(c) ==
    /\ c \in 1..Len(calls) /\ calls[c].pc = "ledger"
    /\ \E out \in {verify_and_consume(used_nonces, validity_window, calls[c].nonce,
                                       calls[c].timestamp, calls[c].current_time)} :
          /\ used_nonces' = out.nonces
          /\ calls' = [calls EXCEPT ![c].pc = "done", ![c].result = out.result,
                                    ![c].ended = now]
          /\ RecordNonceCall(calls[c].nonce, calls[c].timestamp, out.result)
    /\ CallFrame

CallIds == 1..MaxCalls

RaceNext ==
    \/ \E nonce \in Nonces, timestamp \in Timestamps(validity_window) :
          CallArrives(nonce, timestamp)
    \/ \E c \in CallIds : CallReadsClock(c)
    \/ \E c \in CallIds : CallReturns(c)
    \/ Sweep
    \/ Tick

RaceSpec == NonceInit /\ [][RaceNext]_vars

-----------------------------------------------------------------------------
(* Key retrieval next to deployments of one app_id by two deployers *)

(* addresses on both sides of every edge of the access check; the last one is
   ::ffff:172.17.0.5 *)
IpAddrs ==
    { V4(127, 0, 0, 1), V4(127, 255, 0, 9), V6(<<0, 0, 0, 0, 0, 0, 0, 1>>),
      V4(172, 17, 0, 5), V4(172, 31, 255, 1), V4(172, 16, 0, 5), V4(172, 32, 0, 5),
      V4(173, 17, 0, 5), V4(8, 8, 8, 8), V6(<<0, 0, 0, 0, 0, 65535, 44049, 5>>),
      V4(10, 0, 0, 2) }

KeyStartRequests ==
    { Request(AppA, pub_of(1), ComposeA, <<>>),
      Request(AppA, pub_of(2), ComposeB, <<FileX, FileA>>) }

(* a request whose signature the private key k made over its own message *)
SignedRequest(remote_addr, app_id, nonce, timestamp, k) ==
    KeyRequest(remote_addr, app_id, nonce, timestamp,
               sign_message(k, SignedMessage(app_id, nonce, timestamp)))

KeyRequests ==
    { SignedRequest(<<>>, AppA, NonceN, 0, 1),
      SignedRequest(<<V4(172, 17, 0, 5)>>, AppA, NonceX, DefaultValidityWindow, 2),
      SignedRequest(<<V4(8, 8, 8, 8)>>, AppA, NonceN, 0, 1),
      SignedRequest(<<V4(172, 32, 0, 5)>>, AppA, NonceX, 0, 2),
      SignedRequest(<<V4(127, 0, 0, 1)>>, AppA, NonceX, DefaultValidityWindow + 1, 1),
      SignedRequest(<<V4(172, 31, 255, 1)>>, AppAB, NonceN, 0, 1),
      KeyRequest(<<V6(<<0, 0, 0, 0, 0, 0, 0, 1>>)>>, AppA, NonceX, DefaultValidityWindow,
                 sign_message(2, SignedMessage(AppA, NonceN, DefaultValidityWindow))),
      KeyRequest(<<V4(127, 0, 0, 1)>>, AppA, NonceN, 0, Malformed) }

KeyTypes == {"", "ethereum", "rsa"}

KeyInit == Construct(TRUE, DefaultValidityWindow)

KeyNext ==
    \/ \E request \in KeyStartRequests : StartApp(request)
    \/ \E task_id \in TaskIds : WorkerStep(task_id)
    \/ \E request \in KeyRequests : GetAppSecretKey(request)
    \/ \E key_type \in KeyTypes : GetAppKey(AppA, key_type)

KeySpec == KeyInit /\ [][KeyNext]_vars

-----------------------------------------------------------------------------
(* Key retrieval after one start_app call while the clock runs and the ledger
   is swept: requests of another key and of the deployer, with timestamps on
   the past edge of the window, one second inside it, at the clock and past
   the future edge *)

ReplayStartRequests == { Request(AppA, pub_of(1), ComposeA, <<>>) }

ReplayRequests ==
    { SignedRequest(<<V4(127, 0, 0, 1)>>, AppA, NonceX, 0 - DefaultValidityWindow, 2),
      SignedRequest(<<V4(127, 0, 0, 1)>>, AppA, NonceX, 0, 2),
      SignedRequest(<<V4(127, 0, 0, 1)>>, AppA, NonceX, 0, 1),
      SignedRequest(<<>>, AppA, NonceN, 1 - DefaultValidityWindow, 2),
      SignedRequest(<<V4(172, 17, 0, 5)>>, AppA, NonceN, 1, 1),
      SignedRequest(<<V4(127, 0, 0, 1)>>, AppA, NonceX, DefaultValidityWindow + 1, 1),
      SignedRequest(<<V4(10, 0, 0, 2)>>, AppA, NonceX, 0, 1),
      SignedRequest(<<V4(172, 16, 0, 5)>>, AppA, NonceN, 1, 1) }

ReplayInit == Construct(TRUE, DefaultValidityWindow)

ReplayNext ==
    \/ \E request \in ReplayStartRequests : tasks = EmptyMap /\ StartApp(request)
    \/ \E task_id \in TaskIds : WorkerStep(task_id)
    \/ \E request \in ReplayRequests :
          Len(consumed) < MaxConsumed /\ GetAppSecretKey(request)
    \/ Sweep
    \/ Tick

ReplaySpec == ReplayInit /\ [][ReplayNext]_vars

-----------------------------------------------------------------------------
(* The same requests with every answer of get_app_secret_key kept *)

GateNext ==
    \/ \E request \in ReplayStartRequests : tasks = EmptyMap /\ StartApp(request)
    \/ \E task_id \in TaskIds : WorkerStep(task_id)
    \/ \E request \in ReplayRequests :
          Len(consumed) < MaxConsumed /\ GetAppSecretKeyAnswered(request)
    \/ Sweep
    \/ Tick

GateSpec == ReplayInit /\ [][GateNext]_vars

-----------------------------------------------------------------------------
(* Stopping next to one deployment, in-memory keys and a used nonce ledger *)

StopNext ==
    \/ \E request \in ReplayStartRequests : tasks = EmptyMap /\ StartApp(request)
    \/ \E task_id \in TaskIds : WorkerStep(task_id)
    \/ GetAppKey(AppA, "ethereum")
    \/ \E nonce \in Nonces : VerifyAndConsume(nonce, now)
    \/ \E app_id \in AppIds : StopApp(app_id)

StopSpec == Init /\ [][StopNext]_vars

-----------------------------------------------------------------------------
(* One listing next to the deployments of two applications: no filter, parts
   of a deployer in either case, with the 0x prefix once and twice, and parts
   of no deployer *)

DeployerFilters ==
    { <<>>,
      <<"a", "b">>, <<"A", "B">>, <<"b", "a", "b">>,
      <<"0", "x", "a", "b">>, <<"0", "x", "A", "b">>,
      <<"0", "x">>, <<"0", "X", "0", "1">>,
      <<"0", "x", "0", "x", "a", "b">>,
      <<"1", "0">>, <<"0", "2">>, <<"1", "a">> }

ListNext ==
    \/ \E request \in ListStartRequests : StartApp(request)
    \/ \E task_id \in TaskIds : WorkerStep(task_id)
    \/ Tick
    \/ \E deployer_filter \in DeployerFilters :
          applied = NoCall /\ ListAppMeasurements(deployer_filter)

ListSpec == Init /\ [][ListNext]_vars

-----------------------------------------------------------------------------
(* The locks the handlers and the workers take: every handler as the list of
   its lock, unlock and attestation-driver instructions in the order of the
   code; a guard made inside a statement is dropped at its end, on the error
   return of the ? too *)

MaxProcs == 3

Lock(name, mode) == <<"lock", name, mode>>
Unlock(name) == <<"unlock", name>>
Driver(op) == <<"driver", op>>
(* go on, or go on with alt instead of the rest *)
Branch(alt) == <<"branch", alt>>
Locked(name, mode, body) == <<Lock(name, mode)>> \o body \o <<Unlock(name)>>

(* BootService::get_evidence without the guard around get_tee_type *)
get_evidence_unguarded ==
    <<Branch(<<>>)>>
        \o Locked("aa", "write", <<Driver("get_evidence")>>) \o <<Branch(<<>>)>>
        \o <<Driver("get_tee_type")>>

(* BootService::get_evidence: the length check, then the two statements that
   lock the agent *)
get_evidence_locks ==
    <<Branch(<<>>)>>
        \o Locked("aa", "write", <<Driver("get_evidence")>>) \o <<Branch(<<>>)>>
        \o Locked("aa", "write", <<Driver("get_tee_type")>>)

(* TaskManager::update_task_status, as mark_running, mark_completed, mark_failed *)
update_task_status_locks == Locked("tasks", "write", <<>>)

(* start_app and its worker with the measurement map locked from the lookup
   to the insert *)
start_app_locks_nested ==
    Locked("tasks", "write", <<>>) \o update_task_status_locks
        \o <<Lock("app_measurements", "write"), Branch(<<Unlock("app_measurements")>> \o update_task_status_locks)>>
        \o Locked("app_compose_content", "write", <<>>)
        \o Locked("app_mount_files", "write", <<>>)
        \o Locked("manager", "write", <<Driver("docker compose up")>>)
        \o <<Unlock("app_measurements")>>
        \o Locked("aa", "write", <<Driver("extend_runtime_measurement")>>)
        \o update_task_status_locks

(* start_app and its worker with the manager's guard dropped before
   deploy_compose runs *)
start_app_locks_deploy_unlocked ==
    Locked("tasks", "write", <<>>) \o update_task_status_locks
        \o Locked("app_measurements", "write", <<>>) \o <<Branch(update_task_status_locks)>>
        \o <<Branch(update_task_status_locks)>>
        \o Locked("app_compose_content", "write", <<>>)
        \o Locked("app_mount_files", "write", <<>>)
        \o Locked("manager", "write", <<>>) \o <<Driver("docker compose up")>>
        \o <<Branch(update_task_status_locks)>>
        \o Locked("app_measurements", "write", <<>>)
        \o Locked("aa", "write", <<Driver("extend_runtime_measurement")>>)
        \o <<Branch(update_task_status_locks)>>
        \o update_task_status_locks

(* BootService::start_app (create_task, mark_running) and the _start_app it
   spawns; deploy_compose, from the file writes to the exit of docker compose
   up, runs under the manager's guard; every failure goes to mark_failed *)
start_app_locks ==
    Locked("tasks", "write", <<>>) \o update_task_status_locks
        \o Locked("app_measurements", "write", <<>>) \o <<Branch(update_task_status_locks)>>
        \o <<Branch(update_task_status_locks)>>
        \o Locked("app_compose_content", "write", <<>>)
        \o Locked("app_mount_files", "write", <<>>)
        \o Locked("manager", "write", <<Driver("docker compose up")>>)
        \o <<Branch(update_task_status_locks)>>
        \o Locked("app_measurements", "write", <<>>)
        \o Locked("aa", "write", <<Driver("extend_runtime_measurement")>>)
        \o <<Branch(update_task_status_locks)>>
        \o update_task_status_locks

Ops ==
    {"get_evidence", "start_app", "stop_app", "get_task_status", "list_app_measurements",
     "get_app_key", "get_app_secret_key", "get_app_info", "cleanup_expired_nonces"}

(* the instructions of a handler, or of the ledger's sweeper *)
Program(op) ==
    CASE op = "get_evidence" -> get_evidence_locks
      [] op = "start_app" -> start_app_locks
      [] op = "stop_app" -> Locked("manager", "write", <<>>)
      [] op = "get_task_status" -> Locked("tasks", "read", <<>>)
      [] op = "list_app_measurements" -> Locked("app_measurements", "write", <<>>)
      [] op = "get_app_key" -> Locked("app_keys", "write", <<>>)
      [] op = "get_app_secret_key" ->
            <<Branch(<<>>)>>
                \o Locked("used_nonces", "write", <<>>) \o <<Branch(<<>>)>>
                \o Locked("app_measurements", "write", <<>>) \o <<Branch(<<>>)>>
                \o Locked("app_keys", "write", <<>>) \o <<Branch(<<>>)>>
                \o Locked("app_keys", "write", <<>>)
      [] op = "get_app_info" ->
            Locked("app_compose_content", "write", <<>>)
                \o Locked("app_mount_files", "write", <<>>)
      [] op = "cleanup_expired_nonces" -> Locked("used_nonces", "write", <<>>)

ProcIds == 1..MaxProcs

NextOf(p) == Head(procs[p].rest)

Unfinished(p) == p \in DOMAIN procs /\ procs[p].rest # <<>>

(* tokio Mutex, and RwLock with its shared read mode *)
Available(name, mode) ==
    IF mode = "read" THEN \A holder \in locks[name] : holder[2] = "read"
    ELSE locks[name] = {}

HeldBy(p) == {name \in LockNames : \E holder \in locks[name] : holder[1] = p}

Advance(p) == procs' = [procs EXCEPT ![p].rest = Tail(@)]

LockFrame == UNCHANGED <<now, applied, calls, bootVars, keyVars, nonceVars>>

(* a request arrives, or the sweeper wakes up *)
Invoke(op) ==
    /\ Len(procs) < MaxProcs
    /\ procs' = Append(procs, [op |-> op, rest |-> Program(op), inside |-> ""])
    /\ UNCHANGED locks
    /\ LockFrame

LockStep(p) ==
    /\ Unfinished(p) /\ NextOf(p)[1] = "lock"
    /\ Available(NextOf(p)[2], NextOf(p)[3])
    /\ locks' = [locks EXCEPT ![NextOf(p)[2]] = @ \cup {<<p, NextOf(p)[3]>>}]
    /\ Advance(p)
    /\ LockFrame

UnlockStep(p) ==
    /\ Unfinished(p) /\ NextOf(p)[1] = "unlock"
    /\ locks' = [locks EXCEPT ![NextOf(p)[2]] = {holder \in @ : holder[1] # p}]
    /\ Advance(p)
    /\ LockFrame

DriverEnter(p) ==
    /\ Unfinished(p) /\ NextOf(p)[1] = "driver" /\ procs[p].inside = ""
    /\ procs' = [procs EXCEPT ![p].inside = NextOf(p)[2]]
    /\ UNCHANGED locks
    /\ LockFrame

DriverReturn(p) ==
    /\ Unfinished(p) /\ NextOf(p)[1] = "driver" /\ procs[p].inside # ""
    /\ procs' = [procs EXCEPT ![p].inside = "", ![p].rest = Tail(@)]
    /\ UNCHANGED locks
    /\ LockFrame

BranchStep(p) ==
    /\ Unfinished(p) /\ NextOf(p)[1] = "branch"
    /\ \E rest \in {Tail(procs[p].rest), NextOf(p)[2]} :
          procs' = [procs EXCEPT ![p].rest = rest]
    /\ UNCHANGED locks
    /\ LockFrame

LockNext ==
    \/ \E op \in Ops : Invoke(op)
    \/ \E p \in ProcIds : LockStep(p)
    \/ \E p \in ProcIds : UnlockStep(p)
    \/ \E p \in ProcIds : DriverEnter(p)
    \/ \E p \in ProcIds : DriverReturn(p)
    \/ \E p \in ProcIds : BranchStep(p)

LockSpec == Init /\ [][LockNext]_vars

-----------------------------------------------------------------------------
(* The functions of the program applied on their own, one application in a
   behaviour, to inputs drawn from bounded sets; applied holds the
   application *)

MaxMessageLen == 2

RECURSIVE SeqsUpTo(_, _)
SeqsUpTo(S, n) ==
    IF n = 0 THEN {<<>>}
    ELSE LET shorter == SeqsUpTo(S, n - 1)
         IN  shorter \cup {Append(seq, x) : seq \in shorter, x \in S}

Messages == SeqsUpTo({1, 2}, MaxMessageLen)

Applied(op, input, output) == [op |-> op, input |-> input, output |-> output]

PureFrame == UNCHANGED <<now, bootVars, keyVars, nonceVars, locks, procs, calls>>

(* test_sign_and_verify: a generated pair signs message, and the signature is
   verified over other with the public key the pair stores *)
SignAndVerify(seed, message, other) ==
    /\ applied = NoCall
    /\ \E key_pair \in {generate_eth_keypair(seed)} :
          \E signature \in {sign_message(key_pair.private_key, message)} :
              /\ applied' = Applied("sign_and_verify", <<seed, message, other>>,
                                     verify_signature(key_pair.public_key, other,
                                                      signature))
              /\ PureFrame

(* Vec::resize(new_len, value) *)
resize(v, new_len, value) == [i \in 1..new_len |-> IF i <= Len(v) THEN v[i] ELSE value]

(* a get_evidence that cuts a longer input to 64 bytes *)
get_evidence_truncating(report_data, driver_ok) ==
    LET padded == resize(report_data, 64, 0)
    IN  IF driver_ok
        THEN [result |-> <<"Ok">>,
              requests |-> << <<"get_evidence", padded>>, <<"get_tee_type">> >>]
        ELSE [result |-> <<"Err", <<"Attestation">>>>,
              requests |-> << <<"get_evidence", padded>> >>]

(* BootService::get_evidence: its result and the requests it makes to the
   attestation driver, which answers or fails *)
get_evidence(report_data, driver_ok) ==
    IF report_data # <<>> /\ Len(report_data) > 64
    THEN [result |-> <<"Err", <<"Docker", "InvalidComposeContent",
                               "Report data must be at most 64 bytes">>>>,
          requests |-> <<>>]
    ELSE LET padded == IF report_data = <<>> THEN [i \in 1..64 |-> 0]
                       ELSE resize(report_data, 64, 0)
         IN  IF driver_ok
             THEN [result |-> <<"Ok">>,
                   requests |-> << <<"get_evidence", padded>>, <<"get_tee_type">> >>]
             ELSE [result |-> <<"Err", <<"Attestation">>>>,
                   requests |-> << <<"get_evidence", padded>> >>]

(* report data of the lengths 0, 1, 2, 63, 64 and 65, of zero and non-zero
   bytes, some ending in zeros *)
ReportData ==
    {[i \in 1..n |-> b] : n \in {0, 1, 2, 63, 64, 65}, b \in {0, 1, 2}}
        \cup {<<1, 0>>, <<0, 2>>, [i \in 1..64 |-> IF i = 64 THEN 0 ELSE 1],
              [i \in 1..65 |-> IF i = 65 THEN 1 ELSE 0]}

GetEvidence(report_data, driver_ok) ==
    /\ applied = NoCall
    /\ applied' = Applied("get_evidence", <<report_data, driver_ok>>,
                           get_evidence(report_data, driver_ok))
    /\ PureFrame

MaxFiles == 5
MaxPermuted == 3

File(source_path, content) == [source_path |-> source_path, content |-> content, mode |-> "0644"]

(* files of five different paths, one a prefix of another, one empty, two of
   the same content *)
MountFiles ==
    { File(<<"a">>, <<97>>), File(<<"a", "b">>, <<98>>), File(<<"b">>, <<>>),
      File(<<".", "/", "x">>, <<120>>), File(<<"x">>, <<97>>) }

(* files that share their paths *)
SharedPathFiles ==
    { File(<<"a">>, <<97>>), File(<<"a">>, <<98>>), File(<<"b">>, <<97>>),
      File(<<"b">>, <<110>>) }

Reordered(list) ==
    {[i \in 1..Len(list) |-> list[p[i]]] : p \in Permutations(1..Len(list))}

(* the lists of up to n of the files, none taken twice *)
ListsOf(files, n) ==
    {list \in SeqsUpTo(files, n) : \A i, j \in 1..Len(list) : list[i] = list[j] => i = j}

MountFileLists == ListsOf(MountFiles, MaxFiles)

SharedPathLists == ListsOf(SharedPathFiles, MaxPermuted)

MountFilesHash(mount_files) ==
    /\ applied = NoCall
    /\ applied' = Applied("calculate_mount_files_hash", <<mount_files>>,
                           calculate_mount_files_hash(mount_files))
    /\ PureFrame

(* the same files handed over in two orders *)
MountFilesHashReordered(mount_files, reordered) ==
    /\ applied = NoCall
    /\ applied' = Applied("calculate_mount_files_hash twice", <<mount_files, reordered>>,
                           <<calculate_mount_files_hash(mount_files),
                             calculate_mount_files_hash(reordered)>>)
    /\ PureFrame

(* store_mount_files' name of a file in the app directory: leading "./" and
   "/" trimmed, every other "/" replaced by "_" *)
sanitize(source_path) ==
    LET trimmed == trim_start_matches(trim_start_matches(source_path, <<".", "/">>),
                                      <<"/">>)
    IN  [i \in 1..Len(trimmed) |-> IF trimmed[i] = "/" THEN "_" ELSE trimmed[i]]

(* store_mount_files on a file system that takes every write: the files of
   the app directory by name, written one after another in the order of the
   request; File::create fails on the name of the directory itself *)
RECURSIVE store_mount_files(_, _)
store_mount_files(files, mount_files) ==
    IF mount_files = <<>> THEN [result |-> <<"Ok">>, files |-> files]
    ELSE IF sanitize(Head(mount_files).source_path) = <<>>
    THEN [result |-> <<"Err", <<"Docker", "VolumeMeasurementFailed">>>>, files |-> files]
    ELSE store_mount_files(Put(files, sanitize(Head(mount_files).source_path),
                               Head(mount_files).content),
                           Tail(mount_files))

(* files whose paths differ in a leading "./" or "/" or in "/" against "_" *)
StoredFiles ==
    { File(<<".", "/", "x">>, <<120>>), File(<<"x">>, <<97>>),
      File(<<"a", "/", "b">>, <<98>>), File(<<"a", "_", "b">>, <<110>>),
      File(<<"/", "a">>, <<97>>), File(<<".", "/">>, <<98>>) }

StoredFileLists ==
    {list \in ListsOf(StoredFiles, 2) :
        \A i, j \in 1..Len(list) : list[i].source_path = list[j].source_path => i = j}

(* the app directory after store_mount_files in an empty directory *)
StoreMountFiles(mount_files) ==
    /\ applied = NoCall
    /\ applied' = Applied("store_mount_files", <<mount_files>>,
                           store_mount_files(EmptyMap, mount_files))
    /\ PureFrame

(* the lists of at most two of the files *)
MountFilePairs == ListsOf(MountFiles, 2)

(* the hashes of two lists of files *)
MountFilesHashOfTwo(first, second) ==
    /\ applied = NoCall
    /\ applied' = Applied("calculate_mount_files_hash of two", <<first, second>>,
                           <<calculate_mount_files_hash(first),
                             calculate_mount_files_hash(second)>>)
    /\ PureFrame

Quotings == {"plain", "single", "double"}
Layouts == {"block", "flow"}

Ordered(first, second, swap) == IF swap THEN <<second, first>> ELSE <<first, second>>

(* a text of a mapping and a sequence under two keys, with the orders of the
   three, the quoting of its scalars and keys and its layout to choose; the
   scalar 0 is a number when plain and a string when quoted *)
ComposeText(swap_top, swap_inner, swap_items, quoting, layout) ==
    Ordered(<<(<<"x">>),
              Mapping(Ordered(<<(<<"a">>), Scalar("web", quoting), quoting>>,
                              <<(<<"a", "b">>), Scalar("0", "plain"), "plain">>,
                              swap_inner), layout),
              "plain">>,
            <<(<<"a">>),
              Sequence(Ordered(Scalar("0", quoting), Scalar("web", "plain"), swap_items),
                       layout),
              quoting>>,
            swap_top)

ComposeTexts ==
    {ComposeText(swap_top, swap_inner, swap_items, quoting, layout) :
        swap_top \in BOOLEAN, swap_inner \in BOOLEAN, swap_items \in BOOLEAN,
        quoting \in Quotings, layout \in Layouts}

(* the hash of two texts *)
ComposeHashOfTwo(first, second) ==
    /\ applied = NoCall
    /\ applied' = Applied("calculate_compose_hash twice", <<first, second>>,
                           <<calculate_compose_hash(first), calculate_compose_hash(second)>>)
    /\ PureFrame

(* the normalisation of a text, and of what it gave *)
NormalizeTwice(content) ==
    /\ applied = NoCall
    /\ \E normalized \in {normalize_compose_content(content)} :
          applied' = Applied("normalize_compose_content twice", <<content>>,
                             <<normalized, normalize_compose_content(normalized)>>)
    /\ PureFrame

(* identifiers of one character repeated 0, 1, 2, 32, 33, 64 and 65 times,
   and identifiers of 3 and 64 characters with one other character among the
   first three *)
(* the identifiers of test_validate_app_id *)
MyApp == <<"m", "y", "-", "a", "p", "p">>
App123 == <<"a", "p", "p", "_", "1", "2", "3">>
Ab == <<"a", "b">>
TooLong == [i \in 1..65 |-> "a"]
AppAt123 == <<"a", "p", "p", "@", "1", "2", "3">>
AppSpace == <<"a", "p", "p", " ", "s", "p", "a", "c", "e">>

TestAppIds == {MyApp, App123, Ab, TooLong, AppAt123, AppSpace}

AppIdTexts ==
    {[i \in 1..n |-> c] : n \in {0, 1, 2, 32, 33, 64, 65}, c \in {"a", "0", "-", "_", EAcute}}
        \cup {[i \in 1..n |-> IF i = at THEN c ELSE "a"] :
                 n \in {3, 64}, at \in {1, 2, 3}, c \in {" ", ".", "/", "@"}}
        \cup TestAppIds

ValidateAppId(app_id) ==
    /\ applied = NoCall
    /\ applied' = Applied("validate_app_id", <<app_id>>, validate_app_id(app_id))
    /\ PureFrame

PureNext ==
    \/ \E seed \in KeySeeds, message \in Messages, other \in Messages :
          SignAndVerify(seed, message, other)
    \/ \E report_data \in ReportData, driver_ok \in BOOLEAN :
          GetEvidence(report_data, driver_ok)
    \/ \E mount_files \in MountFileLists : MountFilesHash(mount_files)
    \/ \E mount_files \in SharedPathLists :
          \E reordered \in Reordered(mount_files) :
              MountFilesHashReordered(mount_files, reordered)
    \/ \E mount_files \in StoredFileLists : StoreMountFiles(mount_files)
    \/ \E first \in MountFilePairs, second \in MountFilePairs :
          MountFilesHashOfTwo(first, second)
    \/ \E first \in ComposeTexts, second \in ComposeTexts : ComposeHashOfTwo(first, second)
    \/ \E content \in ComposeTexts : NormalizeTwice(content)
    \/ \E app_id \in AppIdTexts : ValidateAppId(app_id)

PureSpec == Init /\ [][PureNext]_vars

-----------------------------------------------------------------------------
(* Claims about the deployment *)

CompletedTasks(app_id) ==
    {t \in DOMAIN tasks : StatusKind(tasks[t]) = "Completed" /\ tasks[t].status[2] = app_id}

InsertionsOf(app_id) == {e \in inserted : e[2].app_id = app_id}

(* C4: for every app_id the AppMeasurement is inserted at most once (so it is
   never overwritten) and at most one start_app task of the app_id is Completed *)
C4_InsertedAtMostOnce ==
    \A app_id \in AppIds :
        /\ Cardinality(InsertionsOf(app_id)) <= 1
        /\ Cardinality(CompletedTasks(app_id)) <= 1

Listed(app_id) ==
    LET list == list_app_measurements(<<>>)
    IN  {list[i] : i \in {j \in 1..Len(list) : list[j].app_id = app_id}}

SameIdentity(m1, m2) ==
    /\ m1.app_id = m2.app_id
    /\ m1.compose_hash = m2.compose_hash
    /\ m1.volumes_hash = m2.volumes_hash
    /\ m1.deployer = m2.deployer

(* C5: a record that an unfiltered list_app_measurements returns for an app_id
   is returned, with the same app_id, compose_hash, volumes_hash and deployer,
   by every later unfiltered list_app_measurements *)
C5_ListedRecordKept ==
    [][\A app_id \in AppIds : \A m \in Listed(app_id) :
          \E m2 \in Listed(app_id)' : SameIdentity(m, m2)]_vars

StatusStepAllowed(task_id) ==
    IF task_id \notin DOMAIN tasks
    THEN task_id \in DOMAIN tasks' => tasks'[task_id].status = Pending
    ELSE /\ task_id \in DOMAIN tasks'
         /\ \/ tasks'[task_id].status = tasks[task_id].status
            \/ /\ StatusKind(tasks[task_id]) = "Pending"
               /\ StatusKind(tasks'[task_id]) = "Running"
            \/ /\ StatusKind(tasks[task_id]) = "Running"
               /\ StatusKind(tasks'[task_id]) \in {"Completed", "Failed"}

(* C6: the statuses a task takes are a prefix of Pending, Running, then one of
   Completed or Failed: a task starts Pending, each change of its status is
   Pending to Running or Running to a terminal status, and a terminal status
   is never written again *)
C6_StatusSequence == [][\A task_id \in TaskIds : StatusStepAllowed(task_id)]_vars

C6_Witness ==
    \E t1, t2 \in DOMAIN tasks :
        /\ StatusKind(tasks[t1]) = "Completed"
        /\ StatusKind(tasks[t2]) = "Failed"
        /\ workers[t1].pc = "done" /\ workers[t2].pc = "done"

(* C7: once a task is Completed or Failed, every later mark_running,
   mark_completed and mark_failed call leaves its status unchanged *)
C7_TerminalStatusKept ==
    [][\A task_id \in DOMAIN tasks :
          IsTerminal(tasks[task_id]) => tasks'[task_id].status = tasks[task_id].status]_vars

Returned(task_id) == task_id \in DOMAIN workers /\ workers[task_id].pc # "mark_running"

(* C8: every task whose id start_app returned is eventually Completed or
   Failed, and a worker that has ended left its task Completed when no step
   failed and Failed with the failing step's message otherwise *)
C8_TaskEnds ==
    /\ [](\A task_id \in DOMAIN workers :
            workers[task_id].pc = "done" =>
               IF workers[task_id].error = None
               THEN StatusKind(tasks[task_id]) = "Completed"
               ELSE tasks[task_id].status = Failed(workers[task_id].error))
    /\ \A task_id \in TaskIds :
          Returned(task_id) ~> (task_id \in DOMAIN tasks /\ IsTerminal(tasks[task_id]))

C8_Witness ==
    \E t1, t2 \in DOMAIN tasks :
        /\ tasks[t1].status = Failed("Docker error: Container operation failed: docker_compose_up")
        /\ tasks[t2].status = Failed("Attestation error: RTMR extension failed")

RtmrContents == {rtmr[i].content : i \in 1..Len(rtmr)}

(* C9: the register is extended, under domain tapp.0g.com and operation
   start_app, only with the JSON of a record that was inserted before, and
   whenever a task is Completed the measurement of its app_id is listed and
   the register has been extended with that measurement *)
C9_CompletedMeansExtended ==
    /\ \A i \in 1..Len(rtmr) :
          /\ rtmr[i].domain = "tapp.0g.com"
          /\ rtmr[i].operation = "start_app"
          /\ \E e \in inserted : rtmr[i].content = to_json(e[2])
    /\ \A task_id \in DOMAIN tasks :
          StatusKind(tasks[task_id]) = "Completed" =>
             /\ Listed(tasks[task_id].status[2]) # {}
             /\ \A m \in Listed(tasks[task_id].status[2]) : to_json(m) \in RtmrContents

(* C10: an app_id with stored compose text or stored mount-files content has
   a recorded AppMeasurement *)
C10_SourceMaterialHasMeasurement ==
    \A app_id \in (DOMAIN app_compose_content) \cup (DOMAIN app_mount_files) :
        app_id \in DOMAIN app_measurements

-----------------------------------------------------------------------------
(* Claims about the key retrieval *)

InAllowedRange(remote_addr) ==
    \/ remote_addr = <<>>
    \/ /\ remote_addr # <<>>
       /\ LET ip == remote_addr[1]
          IN  \/ ip[1] = "V4" /\ ip[2][1] = 127
              \/ ip = V6(<<0, 0, 0, 0, 0, 0, 0, 1>>)
              \/ ip[1] = "V4" /\ ip[2][1] = 172 /\ ip[2][2] \in 17..31

InsideWindow(request) ==
    /\ request.timestamp - now <= validity_window
    /\ now - request.timestamp <= validity_window

SignedByRecordedDeployer(request) ==
    /\ request.app_id \in DOMAIN app_measurements
    /\ \E k \in PrivKeys :
          /\ app_measurements[request.app_id].deployer = hex_encode(pub_of(k))
          /\ request.signature =
                sign_message(k, as_bytes(request.app_id) \o as_bytes(request.nonce)
                                \o to_le_bytes(request.timestamp))

(* C1: in every reachable state get_app_secret_key answers a request with a
   private key only if the remote address is absent, loopback or in
   172.17-172.31, the nonce is unused and its timestamp inside the window, and
   the signature over app_id || nonce || timestamp verifies under the deployer
   recorded for the app; a request from another address is denied without a
   call of the ledger, one failing the nonce gate is denied before the app is
   looked up and without a key made, and one passing the nonce gate has its
   nonce consumed whatever the signature is *)
C1_TripleGate ==
    /\ \A ip \in IpAddrs : is_allowed_local_access(ip) <=> InAllowedRange(<<ip>>)
    /\ \A request \in KeyRequests, seed \in KeySeeds :
       \A out \in {get_app_secret_key(request, seed)} :
          LET fresh == request.nonce \notin DOMAIN used_nonces /\ InsideWindow(request)
          IN  /\ out.response.code = "Ok" =>
                    /\ out.response.key # <<>>
                    /\ InAllowedRange(request.remote_addr)
                    /\ fresh
                    /\ SignedByRecordedDeployer(request)
              /\ ~InAllowedRange(request.remote_addr) =>
                    /\ out.response.code = "PermissionDenied"
                    /\ out.call = <<>>
                    /\ out.nonces = used_nonces
                    /\ out.keys = app_keys
              /\ (InAllowedRange(request.remote_addr) /\ ~fresh) =>
                    /\ out.response.code = "PermissionDenied"
                    /\ out.call # <<>>
                    /\ out.nonces = used_nonces
                    /\ out.keys = app_keys
              /\ (InAllowedRange(request.remote_addr) /\ fresh) =>
                    /\ request.nonce \in DOMAIN out.nonces
                    /\ (~SignedByRecordedDeployer(request) =>
                           out.response.code # "Ok" /\ out.keys = app_keys)

(* a key was handed out to the second deployer, whose request came from the
   docker bridge with a timestamp on the edge of the window *)
C1_Witness ==
    /\ <<AppA, hex_encode(pub_of(2))>> \in released
    /\ NonceX \in DOMAIN used_nonces
    /\ AppA \in DOMAIN app_keys

(* C2: the private key of an app_id is handed out under one deployer only *)
C2_SingleDeployer ==
    \A app_id \in AppIds : Cardinality({e \in released : e[1] = app_id}) <= 1

-----------------------------------------------------------------------------
(* Claims about the nonce ledger *)

SameNonceLater(i, j) ==
    i < j /\ consumed[i].nonce = consumed[j].nonce

(* C3: after verify_and_consume(N, ts) succeeds on a ledger with window W,
   every later verify_and_consume of the nonce N at a time before ts + W
   fails, whatever timestamp it carries and whenever the sweeper runs: two
   successful calls of one nonce have the later one at ts + W or after *)
C3_NoReuseBeforeExpiry ==
    \A i, j \in 1..Len(consumed) :
        SameNonceLater(i, j) =>
            consumed[j].time >= consumed[i].timestamp + validity_window

(* a nonce was consumed, time has passed but not up to ts + W, and every call
   of the nonce is refused, the ones inside the window as replays *)
C3_Witness ==
    \E i \in 1..Len(consumed) :
        /\ consumed[i].time < now
        /\ now < consumed[i].timestamp + validity_window
        /\ \A timestamp \in Timestamps(validity_window) :
              verify_and_consume(used_nonces, validity_window, consumed[i].nonce,
                                 timestamp, now).result # NonceOk
        /\ verify_and_consume(used_nonces, validity_window, consumed[i].nonce,
                              now, now).result = NonceReplay

(* C3 as stated: two successful calls of one nonce are never less than W
   apart in time *)
C3_NoReuseWithinWindow ==
    \A i, j \in 1..Len(consumed) :
        SameNonceLater(i, j) =>
            ~(abs(consumed[j].time - consumed[i].time) < validity_window)

-----------------------------------------------------------------------------
(* Claims about failed deployments *)

DriverFailed(task_id) ==
    task_id \in DOMAIN workers /\ workers[task_id].error \in DeployErrors

InsertionsBy(task_id) == {e \in inserted : e[1] = task_id}

ExtensionsBy(task_id) == {e \in extended : e[1] = task_id}

(* C11: a task whose deploy_compose failed, whatever the error, has inserted
   no AppMeasurement and has not extended the register, its worker ends with
   the task Failed carrying the message of the driver's error, and the task
   does end so *)
C11_DriverFailureFailsTask ==
    /\ [](\A task_id \in DOMAIN workers :
            DriverFailed(task_id) =>
               /\ InsertionsBy(task_id) = {}
               /\ ExtensionsBy(task_id) = {}
               /\ workers[task_id].pc = "done" =>
                      tasks[task_id].status = Failed(workers[task_id].error))
    /\ \A task_id \in TaskIds :
          DriverFailed(task_id) ~>
             (/\ task_id \in DOMAIN tasks
              /\ \E error \in DeployErrors : tasks[task_id].status = Failed(error))

(* a task failed because docker could not be spawned, while another task of
   the same app_id inserted the measurement and extended the register *)
C11_Witness ==
    \E t1, t2 \in DOMAIN tasks :
        /\ tasks[t1].status = Failed("Docker error: Container operation failed: docker_compose_up - Failed to execute docker compose command")
        /\ workers[t1].request.app_id = workers[t2].request.app_id
        /\ InsertionsBy(t2) # {} /\ ExtensionsBy(t2) # {}
        /\ InsertionsBy(t1) = {} /\ ExtensionsBy(t1) = {}

CalledOnExisting(task_id) ==
    task_id \in DOMAIN workers /\ workers[task_id].existing

AlreadyExists == "Invalid parameter: app_id - Application already exists"

(* C12: a task of a start_app call made when the app_id had a measurement
   never stores, deploys, inserts or extends, no step of it changes the
   measurements, the stored compose texts, the stored mount-files contents,
   the key pairs or the register, its worker ends with the task Failed
   (application already exists), and the task does end so *)
C12_ExistingAppRejected ==
    /\ [](\A task_id \in DOMAIN workers :
            CalledOnExisting(task_id) =>
               /\ workers[task_id].pc \in {"mark_running", "check", "finish", "done"}
               /\ InsertionsBy(task_id) = {}
               /\ ExtensionsBy(task_id) = {}
               /\ workers[task_id].pc \in {"finish", "done"} =>
                      workers[task_id].error = AlreadyExists
               /\ workers[task_id].pc = "done" =>
                      tasks[task_id].status = Failed(AlreadyExists))
    /\ [][\A task_id \in DOMAIN workers' :
             (workers'[task_id].existing
                /\ (task_id \notin DOMAIN workers \/ workers'[task_id] # workers[task_id])) =>
                /\ app_measurements' = app_measurements
                /\ app_compose_content' = app_compose_content
                /\ app_mount_files' = app_mount_files
                /\ app_keys' = app_keys
                /\ rtmr' = rtmr]_vars
    /\ \A task_id \in TaskIds :
          CalledOnExisting(task_id) ~>
             (task_id \in DOMAIN tasks /\ tasks[task_id].status = Failed(AlreadyExists))

(* the second start_app of an app_id, called after the first one's insert,
   has failed and the record of the first is the one listed *)
C12_Witness ==
    \E t1, t2 \in DOMAIN tasks :
        /\ workers[t2].existing
        /\ tasks[t2].status = Failed(AlreadyExists)
        /\ InsertionsBy(t1) = {<<t1, app_measurements[workers[t2].request.app_id]>>}
        /\ workers[t2].request.app_id \in DOMAIN app_compose_content

-----------------------------------------------------------------------------
(* Claims about replayed nonces *)

InvalidSignature ==
    Status("PermissionDenied",
           <<"Invalid deployer signature. Only the app deployer can access the private key.">>)

ReplayDenied ==
    Status("PermissionDenied",
           <<"Nonce verification failed", "Nonce already used (replay attack detected)">>)

Fresh(request) == request.nonce \notin DOMAIN used_nonces /\ InsideWindow(request)

(* the request is answered as a replay when its timestamp is inside the window
   and as outside the window otherwise, and changes nothing *)
RefusedAsReplay(request, out) ==
    /\ out.response.code = "PermissionDenied"
    /\ InsideWindow(request) => out.response = ReplayDenied
    /\ out.nonces = used_nonces
    /\ out.keys = app_keys
    /\ out.deployer = <<>>

(* C13: a request from an allowed origin with a fresh nonce, for a recorded
   app, whose signature is one of a key but not the recorded deployer's over
   this message, is answered PermissionDenied (invalid signature) and its
   nonce is recorded with the expiry timestamp + window; and while the clock
   is before that expiry every request from an allowed origin that carries the
   nonce again is refused, as a replay when its timestamp is inside the window,
   also when the recorded deployer signed it *)
C13_DeniedNonceStaysConsumed ==
    \A request \in ReplayRequests, seed \in KeySeeds :
    \A out \in {get_app_secret_key(request, seed)} :
       /\ ( /\ InAllowedRange(request.remote_addr)
            /\ Fresh(request)
            /\ request.app_id \in DOMAIN app_measurements
            /\ request.signature # Malformed
            /\ ~SignedByRecordedDeployer(request) ) =>
              /\ out.response = InvalidSignature
              /\ out.nonces = Put(used_nonces, request.nonce,
                                  request.timestamp + validity_window)
       /\ \A e \in denied :
             ( /\ e[1] = request.nonce
               /\ now < e[2] + validity_window
               /\ InAllowedRange(request.remote_addr) ) =>
                 RefusedAsReplay(request, out)

(* a request of another key was refused for its signature, the clock has moved
   on but not to the expiry of its nonce, and the deployer's own request with
   that nonce is refused as a replay *)
C13_Witness ==
    /\ now = 1
    /\ \E e \in denied, request \in ReplayRequests :
          /\ e[1] = request.nonce
          /\ now < e[2] + validity_window
          /\ SignedByRecordedDeployer(request)
          /\ InsideWindow(request)
          /\ get_app_secret_key(request, 1).response = ReplayDenied

(* C13 as stated: once a request was refused for its signature, every later
   request from an allowed origin that carries its nonce is refused, at any
   time *)
C13_DeniedNonceNeverAccepted ==
    \A request \in ReplayRequests, seed \in KeySeeds :
    \A out \in {get_app_secret_key(request, seed)} :
       \A e \in denied :
          (e[1] = request.nonce /\ InAllowedRange(request.remote_addr)) =>
             RefusedAsReplay(request, out)

-----------------------------------------------------------------------------
(* Claims about the answers of the key retrieval *)

(* C14: a request that is not answered with the key is answered
   PermissionDenied when its origin is not allowed, when its nonce is used or
   its timestamp outside the window, and when its signature is anything but
   the recorded deployer's over the message, and NotFound when it passed the
   first two gates and the app_id has no measurement *)
C14_GateFailureDenied ==
    \A request \in KeyRequests, seed \in KeySeeds :
    \A out \in {get_app_secret_key(request, seed)} :
       out.response.code # "Ok" =>
          IF ~InAllowedRange(request.remote_addr) \/ ~Fresh(request)
          THEN out.response.code = "PermissionDenied"
          ELSE IF request.app_id \notin DOMAIN app_measurements
          THEN out.response.code = "NotFound"
          ELSE out.response.code = "PermissionDenied"

KeyPairs == {generate_eth_keypair(seed) : seed \in KeySeeds}

(* C15: with in-memory keys, for an app_id one of whose start_app tasks is
   Completed, a request from an allowed origin with an unused nonce, a
   timestamp inside the window and the recorded deployer's signature over
   app_id || nonce || timestamp is answered Ok with the private key, the
   public key and the address of one key pair: the pair kept for the app_id,
   the one it had before if it had one, and the one whose public key and
   address every get_app_key after it returns *)
C15_DeployerGetsTheKeyPair ==
    \A request \in KeyRequests :
       ( /\ use_in_memory
         /\ CompletedTasks(request.app_id) # {}
         /\ InAllowedRange(request.remote_addr)
         /\ Fresh(request)
         /\ SignedByRecordedDeployer(request) ) =>
       \A seed \in KeySeeds : \A out \in {get_app_secret_key(request, seed)} :
          /\ out.response.code = "Ok"
          /\ \E pair \in KeyPairs :
                /\ out.response.key = <<pair>>
                /\ out.keys[request.app_id] = pair
                /\ request.app_id \in DOMAIN app_keys => app_keys[request.app_id] = pair
                /\ \A seed2 \in KeySeeds :
                   \A later \in {get_app_key(out.keys, use_in_memory, request.app_id,
                                              "ethereum", seed2)} :
                      /\ later.status.code = "Ok"
                      /\ later.status.key[1].public_key = pair.public_key
                      /\ later.status.key[1].eth_address = pair.eth_address

(* the first deployer, whose task is Completed, was handed the key of the app *)
C15_Witness ==
    /\ \E task_id \in CompletedTasks(AppA) : tasks[task_id].status[3] = pub_of(1)
    /\ <<AppA, hex_encode(pub_of(1))>> \in released
    /\ AppA \in DOMAIN app_keys

-----------------------------------------------------------------------------
(* Claims about the window of the nonce ledger *)

IsOutsideWindow(result) == result[1] = "Timestamp outside validity window"

(* C16: verify_and_consume(nonce, ts) at time now fails with the
   timestamp-outside-window error exactly when ts < now - window or
   ts > now + window, so a drift equal to the window passes on both sides; it
   fails as a replay exactly when the drift passes and the nonce is in the
   ledger; and a call that fails leaves the ledger as it was, while one that
   succeeds adds the nonce only *)
C16_WindowCheck ==
    \A nonce \in Nonces, timestamp \in Timestamps(validity_window) :
    \A call \in {verify_and_consume(used_nonces, validity_window, nonce, timestamp, now)} :
       /\ IsOutsideWindow(call.result) <=>
             (timestamp < now - validity_window \/ timestamp > now + validity_window)
       /\ call.result = NonceReplay <=>
             /\ timestamp >= now - validity_window
             /\ timestamp <= now + validity_window
             /\ nonce \in DOMAIN used_nonces
       /\ call.result # NonceOk => call.nonces = used_nonces
       /\ call.result = NonceOk =>
             /\ DOMAIN call.nonces = (DOMAIN used_nonces) \cup {nonce}
             /\ \A n \in DOMAIN used_nonces : call.nonces[n] = used_nonces[n]

(* the clock has run, a nonce was consumed at the past edge of the window and
   another at the future edge, and the ledger holds a nonce *)
C16_Witness ==
    /\ now = 1
    /\ used_nonces # EmptyMap
    /\ \E i, j \in 1..Len(consumed) :
          /\ consumed[i].timestamp = consumed[i].time - validity_window
          /\ consumed[j].timestamp = consumed[j].time + validity_window

-----------------------------------------------------------------------------
(* Claims about the validation of start_app *)

IsLowerHex(text) == \A i \in 1..Len(text) : text[i] \in HexDigitSet

(* C17: every request start_app made a task for has a deployer of 32 bytes,
   and every recorded AppMeasurement has a deployer of 64 lowercase hex
   characters *)
C17_DeployerIs32Bytes ==
    /\ \A task_id \in DOMAIN workers : Len(workers[task_id].request.deployer) = 32
    /\ \A app_id \in DOMAIN app_measurements :
          /\ Len(app_measurements[app_id].deployer) = 64
          /\ IsLowerHex(app_measurements[app_id].deployer)

StoredAppIds ==
    (DOMAIN app_measurements) \cup (DOMAIN app_compose_content)
        \cup (DOMAIN app_mount_files) \cup (DOMAIN app_keys)

(* the part of C18 about the state: no task is of a request that fails
   validation, and whatever is stored is stored for the app_id of a task *)
NothingForInvalidRequests ==
    /\ \A task_id \in DOMAIN workers : workers[task_id].request \notin InvalidRequests
    /\ DOMAIN tasks = DOMAIN workers
    /\ \A app_id \in StoredAppIds :
          \E task_id \in DOMAIN workers : workers[task_id].request.app_id = app_id

(* C18: start_app answers a request that fails validation with the status
   InvalidArgument, makes no task for it and stores nothing for it *)
C18_InvalidRequestRejected ==
    /\ NothingForInvalidRequests
    /\ \A request \in InvalidRequests : start_app_status(request) = "InvalidArgument"

-----------------------------------------------------------------------------
(* Claims about the origin of a key retrieval *)

OriginDenied ==
    Status("PermissionDenied",
           <<"GetAppSecretKey can only be called from localhost or same-host Docker containers">>)

RemoteAddrs == {<<>>} \cup {<<ip>> : ip \in IpAddrs}

From(request, remote_addr) == [request EXCEPT !.remote_addr = remote_addr]

(* C19: whatever else a request carries, get_app_secret_key refuses it for its
   origin, with PermissionDenied and before the ledger is called, exactly when
   its remote address is present and is neither loopback (127.x.y.z or ::1)
   nor an IPv4 address 172.x.y.z with 17 <= x <= 31; 172.17.0.5 and 127.0.0.1
   pass the gate, 172.16.0.5, 172.32.0.5, 10.0.0.2 and 8.8.8.8 do not *)
C19_OriginGate ==
    \A request \in ReplayRequests, remote_addr \in RemoteAddrs :
    \A out \in {get_app_secret_key(From(request, remote_addr), 1)} :
       /\ (out.response = OriginDenied /\ out.call = <<>>) <=> ~InAllowedRange(remote_addr)
       /\ out.call # <<>> <=> InAllowedRange(remote_addr)
       /\ remote_addr \in {<<V4(172, 17, 0, 5)>>, <<V4(127, 0, 0, 1)>>} =>
             out.response # OriginDenied
       /\ remote_addr \in {<<V4(172, 16, 0, 5)>>, <<V4(172, 32, 0, 5)>>,
                            <<V4(10, 0, 0, 2)>>, <<V4(8, 8, 8, 8)>>} =>
             /\ out.response.code = "PermissionDenied"
             /\ out.nonces = used_nonces
             /\ out.keys = app_keys

(* the deployer's request from the docker bridge was answered with the key,
   and the same request from 172.16.0.5 is refused for its origin *)
C19_Witness ==
    /\ released # {}
    /\ \E i \in 1..Len(consumed) :
          consumed[i].nonce = NonceN /\ consumed[i].timestamp = 1
    /\ get_app_secret_key(SignedRequest(<<V4(172, 16, 0, 5)>>, AppA, NonceN, 1, 1), 1).response
          = OriginDenied

-----------------------------------------------------------------------------
(* Claims about the key pairs *)

PublicPart(response) ==
    <<response.status.code, response.status.key[1].public_key,
      response.status.key[1].eth_address>>

(* C20: with in-memory keys, a get_app_key for an app_id and any get_app_key
   for it after that one return the same public key and address, whatever the
   two would have generated; a call for an app_id that has a pair returns that
   pair and generates none; and no step of any handler removes or replaces the
   pair of an app_id *)
C20_OneKeyPairPerApp ==
    /\ [](\A app_id \in AppIds, seed \in KeySeeds, seed2 \in KeySeeds :
          \A first \in {get_app_key(app_keys, use_in_memory, app_id, "ethereum", seed)} :
          \A second \in {get_app_key(first.keys, use_in_memory, app_id, "ethereum", seed2)} :
             /\ first.status.code = "Ok"
             /\ PublicPart(second) = PublicPart(first)
             /\ second.keys = first.keys
             /\ app_id \in DOMAIN app_keys =>
                   /\ first.keys = app_keys
                   /\ first.status.key[1].public_key = app_keys[app_id].public_key
                   /\ first.status.key[1].eth_address = app_keys[app_id].eth_address)
    /\ [][\A app_id \in DOMAIN app_keys :
             app_id \in DOMAIN app_keys' /\ app_keys'[app_id] = app_keys[app_id]]_vars

(* the pair of the app was generated by a get_app_key call, from the second
   seed, and later handed to a deployer *)
C20_Witness ==
    /\ AppA \in DOMAIN app_keys
    /\ app_keys[AppA] = generate_eth_keypair(2)
    /\ released # {}
    /\ AppAB \notin DOMAIN app_keys

-----------------------------------------------------------------------------
(* Claims about signing *)

(* C21: for every key pair the Key Service generates and every message m,
   verifying sign_message(private key, m) over m with the pair's stored public
   key returns true, and verifying it over any other message returns false *)
C21_SignThenVerify ==
    applied.op = "sign_and_verify"
        => applied.output = <<"Ok", applied.input[2] = applied.input[3]>>

-----------------------------------------------------------------------------
(* Claims about the locks *)

InDriver ==
    {p \in DOMAIN procs :
        procs[p].inside \in {"get_evidence", "extend_runtime_measurement", "get_tee_type"}}

WaitsFor(p, name) == Unfinished(p) /\ NextOf(p)[1] = "lock" /\ NextOf(p)[2] = name

(* C22: at most one call into the attestation driver (get_evidence,
   extend_runtime_measurement or get_tee_type) is in progress at any time,
   whatever handlers and deployment workers run together *)
C22_OneDriverCall == Cardinality(InDriver) <= 1

(* a worker is inside extend_runtime_measurement while a get_evidence handler
   waits for the agent *)
C22_Witness ==
    \E p \in DOMAIN procs, q \in DOMAIN procs :
        /\ procs[p].inside = "extend_runtime_measurement"
        /\ procs[q].op = "get_evidence" /\ WaitsFor(q, "aa")

CanStep(p) ==
    /\ Unfinished(p)
    /\ NextOf(p)[1] = "lock" => Available(NextOf(p)[2], NextOf(p)[3])

(* C23: no handler and no worker ever holds two of the shared locks at once,
   and no state is a deadlock: while some handler or worker has not returned,
   one of them can take its next step *)
C23_NoTwoLocksNoDeadlock ==
    /\ \A p \in ProcIds : Cardinality(HeldBy(p)) <= 1
    /\ (\E p \in ProcIds : Unfinished(p)) => \E p \in ProcIds : CanStep(p)

(* two workers wait for the lock a third handler holds *)
C23_Witness ==
    \E p \in DOMAIN procs, q \in DOMAIN procs, r \in DOMAIN procs :
        /\ p # q /\ procs[p].op = "start_app" /\ procs[q].op = "start_app"
        /\ HeldBy(r) = {"app_measurements"}
        /\ WaitsFor(p, "app_measurements") /\ WaitsFor(q, "app_measurements")

-----------------------------------------------------------------------------
(* Claims about stopping *)

(* C24: stop_app(app_id), whether it succeeds or fails, leaves the measurement
   map, the stored compose text and mount-files content, the key store, the
   task table and the nonce ledger unchanged *)
C24_StopAppFrame ==
    [][(\E app_id \in AppIds : StopApp(app_id))
          => UNCHANGED <<app_measurements, app_compose_content, app_mount_files,
                         app_keys, tasks, used_nonces>>]_vars

(* stop_app of a deployed app has returned while its measurement, its source
   material, its key pair, its task and a used nonce are there *)
C24_Witness ==
    /\ applied.op = "stop_app" /\ applied.input = AppA
    /\ AppA \in DOMAIN app_measurements
    /\ AppA \in DOMAIN app_compose_content /\ AppA \in DOMAIN app_mount_files
    /\ AppA \in DOMAIN app_keys
    /\ CompletedTasks(AppA) # {}
    /\ used_nonces # EmptyMap

NotDeployed(err) == err[1] = "InvalidParameter" /\ err[2] = "app_id"

(* C25: stop_app(app_id) succeeds when a start_app task of the app reached
   Completed, and fails with InvalidParameter on the field app_id when the app
   is not deployed *)
C25_StopAppOutcome ==
    [][\A app_id \in AppIds :
          StopApp(app_id)
              => IF CompletedTasks(app_id) # {}
                 THEN applied'.output = <<"Ok">>
                 ELSE applied'.output[1] = "Err" /\ NotDeployed(applied'.output[2])]_vars

-----------------------------------------------------------------------------
(* Claims about the evidence request *)

ZeroPadded(b, padded) ==
    /\ Len(padded) = 64
    /\ \A i \in 1..64 : padded[i] = IF i <= Len(b) THEN b[i] ELSE 0

(* C26: every accepted get_evidence call hands the driver exactly 64 bytes of
   report data, the input right-padded with zeros (64 zeros for the empty
   input), so an input and its padded form make the same driver request; an
   input longer than 64 bytes is rejected with InvalidComposeContent and the
   driver is not called *)
C26_ReportDataPadded ==
    applied.op = "get_evidence" =>
        IF Len(applied.input[1]) > 64
        THEN /\ applied.output.requests = <<>>
             /\ applied.output.result[1] = "Err"
             /\ applied.output.result[2][2] = "InvalidComposeContent"
        ELSE /\ applied.output.requests # <<>>
             /\ applied.output.requests[1][1] = "get_evidence"
             /\ ZeroPadded(applied.input[1], applied.output.requests[1][2])
             /\ \A i \in 2..Len(applied.output.requests) :
                    applied.output.requests[i][1] # "get_evidence"

(* a 63-byte input was accepted, and a 65-byte input was refused *)
C26_Witness ==
    /\ applied.op = "get_evidence"
    /\ applied.input[2]
    /\ Len(applied.input[1]) = 63 /\ applied.input[1][63] # 0
    /\ applied.output.result = <<"Ok">>

-----------------------------------------------------------------------------
(* Claims about the mount-files hash *)

(* C27: for every mount-file list, whatever source_path values it contains,
   and every permutation of it, calculate_mount_files_hash returns the same
   Merkle root *)
C27_OrderFree ==
    applied.op = "calculate_mount_files_hash twice"
        => applied.output[1][1] = applied.output[2][1]

Node(left, right) == hash(left \o right)

(* the root over one to five leaves, written out *)
RootOf(l) ==
    CASE Len(l) = 1 -> l[1]
      [] Len(l) = 2 -> Node(l[1], l[2])
      [] Len(l) = 3 -> Node(Node(l[1], l[2]), Node(l[3], l[3]))
      [] Len(l) = 4 -> Node(Node(l[1], l[2]), Node(l[3], l[4]))
      [] Len(l) = 5 -> Node(Node(Node(l[1], l[2]), Node(l[3], l[4])),
                            Node(Node(l[5], l[5]), Node(l[5], l[5])))

Ascending(list) ==
    \A i \in 1..(Len(list) - 1) :
        \/ list[i].source_path = list[i + 1].source_path
        \/ StrLess(list[i].source_path, list[i + 1].source_path)

(* C28: the root is computed over the leaves hash(content) in ascending
   source_path order, each level pairing adjacent nodes and hashing the
   concatenation of their hex strings, a trailing unpaired node combined with
   itself; one file's root is its leaf digest; the empty list gives the hash
   of the empty input and the empty audit string *)
C28_MerkleRoot ==
    applied.op = "calculate_mount_files_hash" =>
        IF applied.input[1] = <<>>
        THEN applied.output = <<hash(<<>>), <<>>>>
        ELSE \E sorted \in Reordered(applied.input[1]) :
                /\ Ascending(sorted)
                /\ applied.output[1]
                      = RootOf([i \in 1..Len(sorted) |-> hash(sorted[i].content)])

(* five files given in descending order of their paths *)
C28_Witness ==
    /\ applied.op = "calculate_mount_files_hash"
    /\ Len(applied.input[1]) = 5
    /\ \A i \in 1..4 : StrLess(applied.input[1][i + 1].source_path,
                                 applied.input[1][i].source_path)

-----------------------------------------------------------------------------
(* Claims about the compose hash *)

ReadAsNumber(node) == node.style = "plain" /\ node.text \in Numbers

(* two nodes that stand for equal data: scalars of one type and one text,
   sequences of equal items in one order, mappings of equal values under the
   same keys in any order; quoting and layout do not count *)
RECURSIVE SameData(_, _)
SameData(n1, n2) ==
    IF n1.kind = "scalar" \/ n2.kind = "scalar"
    THEN /\ n1.kind = n2.kind
         /\ n1.text = n2.text
         /\ ReadAsNumber(n1) = ReadAsNumber(n2)
    ELSE /\ n1.kind = n2.kind
         /\ Len(n1.items) = Len(n2.items)
         /\ IF n1.kind = "seq"
            THEN \A i \in 1..Len(n1.items) : SameData(n1.items[i][2], n2.items[i][2])
            ELSE \A i \in 1..Len(n1.items) :
                    \E j \in 1..Len(n2.items) :
                        /\ KeyOf(n1.items[i]) = KeyOf(n2.items[j])
                        /\ SameData(n1.items[i][2], n2.items[j][2])

RECURSIVE KeysAscending(_)
KeysAscending(node) ==
    /\ node.kind = "map" =>
          \A i \in 1..(Len(node.items) - 1) :
              StrLess(KeyOf(node.items[i]), KeyOf(node.items[i + 1]))
    /\ \A i \in 1..Len(node.items) : KeysAscending(node.items[i][2])

(* C29: two compose texts that parse to equal data and differ only in the
   order of mapping keys (at any depth), in whitespace or in quoting have the
   same compose hash; the normalisation keeps the data, the order of every
   sequence included, puts the keys of every mapping in order, and applied to
   its own result it changes nothing *)
C29_ComposeHashCanonical ==
    /\ applied.op = "calculate_compose_hash twice"
          /\ SameData(Document(applied.input[1]), Document(applied.input[2]))
          => applied.output[1] = applied.output[2]
    /\ applied.op = "normalize_compose_content twice"
          => /\ SameData(Document(applied.input[1]), Document(applied.output[1]))
             /\ KeysAscending(Document(applied.output[1]))
             /\ applied.output[2] = applied.output[1]

(* two texts of equal data that differ in the order of the keys at both
   depths, in the quoting and in the layout *)
C29_Witness ==
    /\ applied.op = "calculate_compose_hash twice"
    /\ SameData(Document(applied.input[1]), Document(applied.input[2]))
    /\ KeyOf(applied.input[1][1]) # KeyOf(applied.input[2][1])
    /\ \E i \in 1..2, j \in 1..2 :
          /\ applied.input[1][i][2].kind = "map" /\ applied.input[2][j][2].kind = "map"
          /\ KeyOf(applied.input[1][i][2].items[1]) # KeyOf(applied.input[2][j][2].items[1])
          /\ applied.input[1][i][2].style # applied.input[2][j][2].style
          /\ applied.input[1][i][2].items[1][2].style = "single"
          /\ applied.input[2][j][2].items[2][2].style = "double"

-----------------------------------------------------------------------------
(* Claims about the application id *)

Alphanumeric == {"0", "1", "2", "3", "a", "b", "m", "n", "p", "x", "y", EAcute}

(* C30: validate_app_id accepts exactly the identifiers of 1 to 64 characters
   made only of alphanumeric characters, '-' and '_': the lengths 1 and 64 are
   accepted, 0 and 65 rejected, and an identifier with any other character is
   rejected *)
C30_AppIdFormat ==
    applied.op = "validate_app_id" =>
        applied.output
            = (/\ Len(applied.input[1]) \in 1..64
               /\ \A i \in 1..Len(applied.input[1]) :
                      applied.input[1][i] \in Alphanumeric \cup {"-", "_"})

-----------------------------------------------------------------------------
(* C31: list_app_measurements(filter) returns exactly the recorded
   measurements whose deployer hex contains the filter as a substring, the
   two compared in lower case after a leading 0x is taken off the filter (an
   empty filter selects all), ordered by timestamp descending, and the call
   changes no state *)

strip_prefix(s, prefix) ==
    IF Len(s) >= Len(prefix) /\ SubSeq(s, 1, Len(prefix)) = prefix
    THEN SubSeq(s, Len(prefix) + 1, Len(s))
    ELSE s

Selected(deployer_filter) ==
    {app_measurements[a] : a \in
        {a \in DOMAIN app_measurements :
            contains(to_lowercase(app_measurements[a].deployer),
                     to_lowercase(strip_prefix(deployer_filter, <<"0", "x">>)))}}

C31_ListFiltered ==
    [][applied' # applied /\ applied'.op = "list_app_measurements"
       => /\ UNCHANGED <<now, bootVars, keyVars, nonceVars>>
          /\ LET list == applied'.output
             IN  /\ {list[i] : i \in 1..Len(list)} = Selected(applied'.input)
                 /\ Len(list) = Cardinality(Selected(applied'.input))
                 /\ \A i, j \in 1..Len(list) :
                       i < j => list[i].timestamp >= list[j].timestamp]_vars

-----------------------------------------------------------------------------
(* C32: no (nonce, timestamp) pair is accepted twice by verify_and_consume:
   once the sweeper has removed the entry of an accepted call, a call with
   the same nonce and the same timestamp is refused by the window check at
   every later time, the time timestamp + window included *)
C32_PairAcceptedOnce ==
    \A i, j \in 1..Len(consumed) :
        i < j => ~(/\ consumed[i].nonce = consumed[j].nonce
                   /\ consumed[i].timestamp = consumed[j].timestamp)

-----------------------------------------------------------------------------
(* C33: in every reachable state, for every app_id with a recorded
   measurement, get_app_info returns the compose text and the mount-files
   content from which the recorded compose_hash and volumes_hash were
   computed *)
HashedFrom(measurement, info) ==
    /\ \E request \in ModelRequests :
          /\ request.compose_content = info.compose_content
          /\ ComposeHashes[request] = <<measurement.compose_hash>>
    /\ \E request \in ModelRequests :
          MountFilesHashes[request] = <<measurement.volumes_hash, info.volumes_content>>

C33_InfoMatchesMeasurement ==
    \A app_id \in DOMAIN app_measurements :
        /\ get_app_info(app_id).result = <<"Ok">>
        /\ HashedFrom(app_measurements[app_id], get_app_info(app_id))

-----------------------------------------------------------------------------
(* C34: every AppMeasurement that list_app_measurements shows belongs to a
   task that ends Completed: once every worker has ended, each recorded
   measurement was inserted by a task that is Completed, so a failed
   extension of the register leaves no measurement behind *)
C34_ListedMeansCompleted ==
    (\A task_id \in DOMAIN workers : workers[task_id].pc = "done") =>
        \A app_id \in DOMAIN app_measurements :
            \E task_id \in DOMAIN tasks :
                /\ <<task_id, app_measurements[app_id]>> \in inserted
                /\ StatusKind(tasks[task_id]) = "Completed"

-----------------------------------------------------------------------------
(* C35: volumes_hash determines the mount files: with a hash free of
   collisions, two lists of mount files that differ in the source_path or in
   the content of some file have different volumes_hash values *)
PathsAndContents(mount_files) ==
    {<<mount_files[i].source_path, mount_files[i].content>> : i \in 1..Len(mount_files)}

C35_VolumesHashDetermines ==
    applied.op = "calculate_mount_files_hash of two" =>
        (PathsAndContents(applied.input[1]) # PathsAndContents(applied.input[2])
            => applied.output[1][1] # applied.output[2][1])

-----------------------------------------------------------------------------
(* C36: after store_mount_files has succeeded, every mount file of the
   request is in the app directory under its sanitized name with the content
   that was measured: files of different source_path never share a host file *)
C36_StoredAsMeasured ==
    (applied.op = "store_mount_files" /\ applied.output.result = <<"Ok">>) =>
        \A i \in 1..Len(applied.input[1]) :
            LET mount_file == applied.input[1][i]
            IN  /\ sanitize(mount_file.source_path) \in DOMAIN applied.output.files
                /\ applied.output.files[sanitize(mount_file.source_path)]
                      = mount_file.content

-----------------------------------------------------------------------------
(* C37: at most one docker compose up is in progress at any time, and the
   worker it belongs to holds the manager lock, so no other worker deploys
   and no stop_app runs stop_compose until the subprocess has exited *)
Deploying == {p \in DOMAIN procs : procs[p].inside = "docker compose up"}

C37_OneDeployment ==
    /\ Cardinality(Deploying) <= 1
    /\ \A p \in Deploying :
          /\ HeldBy(p) = {"manager"}
          /\ \A q \in DOMAIN procs : q # p => "manager" \notin HeldBy(q)

(* a worker is inside docker compose up while another worker and a stop_app
   handler wait for the manager *)
C37_Witness ==
    \E p \in Deploying, q \in DOMAIN procs, r \in DOMAIN procs :
        /\ procs[q].op = "start_app" /\ WaitsFor(q, "manager")
        /\ procs[r].op = "stop_app" /\ WaitsFor(r, "manager")

-----------------------------------------------------------------------------
(* C38: a get_app_secret_key request refused for its origin changes no
   state: the ledger does not record its nonce, so a nonce that was unused
   stays unused, and no key pair is created *)
AnsweredNow ==
    /\ applied'.op = "get_app_secret_key"
    /\ \/ applied.op # "get_app_secret_key"
       \/ applied.input # applied'.input
       \/ applied.output.code # applied'.output.code

C38_OriginRefusalFrame ==
    [][(AnsweredNow /\ applied'.output = OriginDenied) =>
          /\ UNCHANGED <<now, bootVars, keyVars, nonceVars, locks, procs, calls>>
          /\ applied'.input.nonce \notin DOMAIN used_nonces
                => applied'.input.nonce \notin DOMAIN used_nonces'
          /\ applied'.input.app_id \notin DOMAIN app_keys
                => applied'.input.app_id \notin DOMAIN app_keys']_vars

(* the deployer's request from 10.0.0.2 was refused for its origin, and the
   same request from the loopback address is then answered with the key *)
C38_Witness ==
    /\ applied.op = "get_app_secret_key"
    /\ applied.output = OriginDenied
    /\ applied.input.nonce \notin DOMAIN used_nonces
    /\ applied.input.app_id \notin DOMAIN app_keys
    /\ \A out \in {get_app_secret_key(From(applied.input, <<V4(127, 0, 0, 1)>>), 1)} :
          out.call = <<NonceOk>> /\ out.response.code = "Ok"

-----------------------------------------------------------------------------
(* Claims about verify_and_consume calls that run together *)

PassedWindow(c) == calls[c].pc = "done" /\ calls[c].result \in {NonceOk, NonceReplay}

(* the second call arrived while the first was running, both carry the same
   nonce and a timestamp inside the window, and both have returned *)
RanTogether(c1, c2) ==
    /\ c1 < c2 /\ calls[c2].together
    /\ calls[c1].nonce = calls[c2].nonce
    /\ PassedWindow(c1) /\ PassedWindow(c2)

OneOkOneReplay(c1, c2) ==
    {calls[c1].result, calls[c2].result} = {NonceOk, NonceReplay}

(* C39: of two verify_and_consume calls with the same nonce and timestamps
   inside the window that run together, one succeeds and the other fails as
   a replay, unless the later one returns when the entry of the earlier one
   has expired, at its timestamp plus the window or after *)
C39_OneOfTwoBeforeExpiry ==
    \A c1, c2 \in 1..Len(calls) :
        RanTogether(c1, c2) =>
            \/ OneOkOneReplay(c1, c2)
            \/ \E first, second \in {c1, c2} :
                  /\ first # second
                  /\ calls[first].result = NonceOk /\ calls[second].result = NonceOk
                  /\ calls[second].ended >= calls[first].timestamp + validity_window

(* two calls of one nonce ran together, both read the clock before either
   took the lock, and the one that arrived second succeeded *)
C39_Witness ==
    \E c1, c2 \in 1..Len(calls) :
        /\ RanTogether(c1, c2)
        /\ calls[c1].result = NonceReplay /\ calls[c2].result = NonceOk
        /\ calls[c1].current_time = calls[c2].current_time
        /\ calls[c2].ended < calls[c2].timestamp + validity_window

(* C39 as stated: in every interleaving one of the two succeeds and the other
   fails as a replay *)
C39_ExactlyOneOfTwo ==
    \A c1, c2 \in 1..Len(calls) : RanTogether(c1, c2) => OneOkOneReplay(c1, c2)

-----------------------------------------------------------------------------
(* C40: validate_app_id rejects an identifier of fewer than 3 characters,
   such as "ab"; it accepts "my-app" and "app_123" and rejects an identifier
   of 65 characters, "app@123" and "app space" *)
C40_TooShortRejected ==
    applied.op = "validate_app_id" =>
        /\ Len(applied.input[1]) < 3 => ~applied.output
        /\ applied.input[1] \in {MyApp, App123} => applied.output
        /\ applied.input[1] \in {TooLong, AppAt123, AppSpace} => ~applied.output
====
